---- MODULE Spec2Model ----
(***************************************************************************)
(* Excel-File-Processing-App: the ingestion -> deduplication ->            *)
(* transactional persistence -> retrieval/search pipeline of              *)
(* ExcelProcessorAPI (ExcelDataService, LegacyDataConverter, the EF Core   *)
(* model and the SQL schema), as a state machine.                          *)
(*                                                                         *)
(* Conventions                                                             *)
(*  - A CLR value held in a Dictionary<string, object> and a JSON token of *)
(*    a stored text are both records [t, v, vk]: t is the type, v the      *)
(*    lexeme (numbers and booleans are kept as their text), vk the         *)
(*    JsonValueKind (its name for a System.Text.Json JsonElement, its      *)
(*    integer code for a stored {"ValueKind": n} object).                  *)
(*  - A Dictionary is a sequence of [name, value] entries in enumeration   *)
(*    (insertion) order, names distinct.                                   *)
(*  - A header string is a sequence of one-character strings.              *)
(*  - The database is the committed tables (sessions, sheets, sheetData,   *)
(*    excludedSheets) plus, per request, the rows its open transaction has *)
(*    written (tx): readers use READ COMMITTED and see the committed       *)
(*    tables only.                                                         *)
(***************************************************************************)
EXTENDS Integers, Sequences, FiniteSets, TLC

\* ------------------------------------------------------------------ bounds
MaxUploads == 2
MaxBatchSize == 2
MaxPageNumber == 2
MaxPageSize == 2
\* the elapsed time of an import, counted in writes, is recorded up to here
MaxSteps == 12
MaxPending == 3

\* --------------------------------------------------------------- utilities
Range(s) == {s[i] : i \in 1..Len(s)}

RECURSIVE SumSeq(_)
SumSeq(s) == IF s = <<>> THEN 0 ELSE Head(s) + SumSeq(Tail(s))

Min(a, b) == IF a < b THEN a ELSE b

\* ------------------------------------------------------------ value domain
Absent == "<absent>"
NullString == "<null>"

Val(t, v, vk) == [t |-> t, v |-> v, vk |-> vk]

\* plain CLR values
ClrString(s) == Val("string", s, "")
ClrLong(n) == Val("long", n, "")
ClrDouble(x) == Val("double", x, "")
ClrBool(b) == Val("bool", b, "")
ClrNull == Val("null", "null", "")
\* System.Text.Json JsonElement (what `object` holds after model binding)
JsonElement(kind, raw) == Val("JsonElement", raw, kind)

\* JSON tokens of a stored text
JString(s) == Val("string", s, "")
JInteger(n) == Val("int", n, "")
JFloat(x) == Val("float", x, "")
JBoolean(b) == Val("bool", b, "")
JNull == Val("null", "null", "")
JDate(s) == Val("date", s, "")
\* a stored object {"ValueKind": code, "Value": raw}; raw = Absent when missing
JTagged(code, raw) == Val("object", raw, code)

Entry(name, value) == [name |-> name, value |-> value]

\* number lexemes that parse as a 64-bit integer
Int64Texts == {"0", "7", "100"}
\* string lexemes in ISO 8601 date-time form
IsoDateTexts == {"2024-01-15T00:00:00"}

\* ---------------------------------------------------------------- Row Codec
\* JsonElement.TryGetInt64
TryGetInt64(raw) == raw \in Int64Texts

\* JsonValueKind as the integer Newtonsoft writes for the enum
ValueKindCode(kind) ==
    CASE kind = "Undefined" -> "0"
      [] kind = "Object" -> "1"
      [] kind = "Array" -> "2"
      [] kind = "String" -> "3"
      [] kind = "Number" -> "4"
      [] kind = "True" -> "5"
      [] kind = "False" -> "6"
      [] kind = "Null" -> "7"

\* ExcelDataService.ConvertJsonElement
ConvertJsonElement(element) ==
    CASE element.vk = "String" -> ClrString(element.v)
      [] element.vk = "Number" ->
            IF TryGetInt64(element.v) THEN ClrLong(element.v) ELSE ClrDouble(element.v)
      [] element.vk = "True" -> ClrBool("true")
      [] element.vk = "False" -> ClrBool("false")
      [] element.vk = "Null" -> ClrString("N/A")
      [] element.vk = "Undefined" -> ClrString("N/A")
      [] OTHER -> ClrString(element.v)

\* ExcelDataService.ConvertJsonElementsToValues
ConvertJsonElementsToValues(row) ==
    [i \in 1..Len(row) |->
        LET value == IF row[i].value.t = "JsonElement"
                     THEN ConvertJsonElement(row[i].value)
                     ELSE row[i].value
        IN Entry(row[i].name, IF value.t = "null" THEN ClrString("N/A") ELSE value)]

\* JsonConvert.SerializeObject of one CLR value: the JSON token it writes.
\* A JsonElement is written through its public properties: {"ValueKind": n}.
SerializeValue(value) ==
    CASE value.t = "string" -> JString(value.v)
      [] value.t = "long" -> JInteger(value.v)
      [] value.t = "double" -> JFloat(value.v)
      [] value.t = "bool" -> JBoolean(value.v)
      [] value.t = "null" -> JNull
      [] value.t = "JsonElement" -> JTagged(ValueKindCode(value.vk), Absent)

\* JsonConvert.SerializeObject of a Dictionary<string, object>: the members in
\* enumeration order
SerializeRow(row) ==
    [wellFormed |-> TRUE,
     members |-> [i \in 1..Len(row) |-> Entry(row[i].name, SerializeValue(row[i].value))]]

\* the text stored in SheetData.RowData for an uploaded row
EncodeRow(row) == SerializeRow(ConvertJsonElementsToValues(row))

\* JObject.Parse typing of a member: DateParseHandling.DateTime turns a string
\* in ISO 8601 form into a Date token
ParseToken(token) ==
    IF token.t = "string" /\ token.v \in IsoDateTexts THEN JDate(token.v) ELSE token

\* JToken.ToString() of a token that is none of String/Integer/Float/Boolean/Null
TokenToString(token) ==
    IF token.t = "date"
    THEN CASE token.v = "2024-01-15T00:00:00" -> "01/15/2024 00:00:00"
           [] OTHER -> "DateTime.ToString()"
    ELSE token.v

\* raw values token.Value<double>() can convert
NumericTexts == Int64Texts \cup {"12.5"}

\* ConvertLegacyValue raises: token["Value"].Value<double>() on a raw value
\* that is no number
ConvertLegacyValueThrows(token) ==
    /\ token.t = "object"
    /\ token.vk = "4"
    /\ token.v \notin NumericTexts \cup {Absent}

\* ConvertLegacyValue returning null for the Null discriminator
ConvertLegacyValueNullKept(token) ==
    IF token.t = "object" /\ token.vk # ""
    THEN CASE token.vk = "3" ->
                IF token.v \notin {Absent, ""} THEN ClrString(token.v) ELSE ClrString("N/A")
           [] token.vk = "4" -> ClrDouble(IF token.v = Absent THEN "0" ELSE token.v)
           [] token.vk = "5" -> ClrBool("true")
           [] token.vk = "6" -> ClrBool("false")
           [] token.vk = "7" -> ClrNull
           [] OTHER -> ClrString("N/A")
    ELSE CASE token.t = "string" -> ClrString(token.v)
           [] token.t = "int" -> ClrLong(token.v)
           [] token.t = "float" -> ClrDouble(token.v)
           [] token.t = "bool" -> ClrBool(token.v)
           [] token.t = "null" -> ClrNull
           [] OTHER -> Val("string", TokenToString(token), "")

\* LegacyDataConverter.ConvertLegacyValue
ConvertLegacyValue(token) ==
    IF token.t = "object" /\ token.vk # ""
    THEN CASE token.vk = "3" ->
                IF token.v \notin {Absent, ""} THEN ClrString(token.v) ELSE ClrString("N/A")
           [] token.vk = "4" -> ClrDouble(IF token.v = Absent THEN "0" ELSE token.v)
           [] token.vk = "5" -> ClrBool("true")
           [] token.vk = "6" -> ClrBool("false")
           [] token.vk = "7" -> ClrString("N/A")
           [] OTHER -> ClrString("N/A")
    ELSE CASE token.t = "string" -> ClrString(token.v)
           [] token.t = "int" -> ClrLong(token.v)
           [] token.t = "float" -> ClrDouble(token.v)
           [] token.t = "bool" -> ClrBool(token.v)
           [] token.t = "null" -> ClrNull
           [] OTHER -> Val("string", TokenToString(token), "")

\* ConvertLegacyData answering a text it cannot parse with the text itself
ConvertLegacyDataRaw(jsonString) ==
    IF ~jsonString.wellFormed
    THEN <<Entry("raw", ClrString("?"))>>
    ELSE IF \E i \in 1..Len(jsonString.members) :
               ConvertLegacyValueThrows(jsonString.members[i].value)
    THEN <<>>
    ELSE [i \in 1..Len(jsonString.members) |->
            Entry(jsonString.members[i].name,
                  ConvertLegacyValue(ParseToken(jsonString.members[i].value)))]

\* LegacyDataConverter.ConvertLegacyData: the empty dictionary on any fault
\* (JObject.Parse or ConvertLegacyValue)
ConvertLegacyData(jsonString) ==
    IF ~jsonString.wellFormed
    THEN <<>>
    ELSE IF \E i \in 1..Len(jsonString.members) :
               ConvertLegacyValueThrows(jsonString.members[i].value)
    THEN <<>>
    ELSE [i \in 1..Len(jsonString.members) |->
            Entry(jsonString.members[i].name,
                  ConvertLegacyValue(ParseToken(jsonString.members[i].value)))]

\* the JSON-level scalar a CLR value stands for: <<type, lexeme>>
ScalarOf(value) ==
    CASE value.t = "JsonElement" /\ value.vk = "String" -> <<"string", value.v>>
      [] value.t = "JsonElement" /\ value.vk = "Number" -> <<"number", value.v>>
      [] value.t = "JsonElement" /\ value.vk \in {"True", "False"} ->
            <<"boolean", IF value.vk = "True" THEN "true" ELSE "false">>
      [] value.t = "JsonElement" -> <<"null", "null">>
      [] value.t = "string" -> <<"string", value.v>>
      [] value.t \in {"long", "double"} -> <<"number", value.v>>
      [] value.t = "bool" -> <<"boolean", value.v>>
      [] OTHER -> <<"null", "null">>

\* ------------------------------------------------------- Fingerprint Guard
\* JsonConvert.SerializeObject(uploadData.Sheets, Formatting.None): the sheet
\* dictionary in enumeration order, each SheetDataDto with its rows as given
\* (no ConvertJsonElementsToValues here), each row in enumeration order
SerializeSheets(sheetMap) ==
    [i \in 1..Len(sheetMap) |->
        [key |-> sheetMap[i].key,
         SheetName |-> sheetMap[i].sheetName,
         Headers |-> sheetMap[i].headers,
         Data |-> [j \in 1..Len(sheetMap[i].data) |-> SerializeRow(sheetMap[i].data[j])]]]

\* SHA256 + Convert.ToHexString, taken as collision-free: the digest stands for
\* the text it was computed from
SHA256Hex(text) == [sha256 |-> text]

\* ExcelDataService.CalculateFileHash
CalculateFileHash(uploadData) == SHA256Hex(SerializeSheets(uploadData.sheets))

\* ------------------------------------------------------------ upload inputs
NameH == <<"N", "a", "m", "e">>
AmountH == <<"A", "m", "o", "u", "n", "t">>

SheetDto(key, headers, data) ==
    [key |-> key, sheetName |-> key, headers |-> headers, data |-> data]

UploadDto(fileName, importedBy, excluded, sheetMap) ==
    [fileName |-> fileName, importedBy |-> importedBy,
     metadata |-> [excludedSheets |-> excluded], sheets |-> sheetMap]

\* sheet "Data" of the end-to-end scenario, as bound by System.Text.Json
DataSheet ==
    SheetDto("Data", <<NameH, AmountH>>,
        << <<Entry("Name", JsonElement("String", "Acme")),
             Entry("Amount", JsonElement("Number", "100"))>> >>)

\* sheet "Data" of another workbook: same name, headers and cell kinds, other
\* cell values
DataSheetOther ==
    SheetDto("Data", <<NameH, AmountH>>,
        << <<Entry("Name", JsonElement("String", "Beta")),
             Entry("Amount", JsonElement("Number", "7"))>> >>)

\* three rows: every scalar kind, as JsonElement and as plain CLR value
SheetA ==
    SheetDto("A", <<NameH, AmountH>>,
        << <<Entry("Name", ClrString("Acme")), Entry("Amount", ClrLong("7"))>>,
           <<Entry("Name", JsonElement("Null", "null")),
             Entry("Amount", JsonElement("Number", "12.5"))>>,
           <<Entry("Name", JsonElement("String", "2024-01-15T00:00:00")),
             Entry("Amount", JsonElement("True", "true"))>> >>)

\* SheetA with the fields of every row inserted in the other order
SheetAFieldsSwapped ==
    [SheetA EXCEPT !.data =
        [j \in 1..Len(SheetA.data) |-> <<SheetA.data[j][2], SheetA.data[j][1]>>]]

\* a sheet without rows; one plain null cell in sheet "C"
SheetB == SheetDto("B", <<NameH>>, <<>>)
SheetC ==
    SheetDto("C", <<NameH, AmountH>>,
        << <<Entry("Name", ClrNull), Entry("Amount", ClrDouble("12.5"))>>,
           <<Entry("Name", ClrString("")), Entry("Amount", ClrBool("false"))>> >>)

\* a sheet whose first header cell is the empty string
SheetBlankHeader ==
    SheetDto("H", <<<<>>, AmountH>>,
        << <<Entry("", ClrString("x")), Entry("Amount", ClrLong("7"))>> >>)

\* a sheet whose header cells start with a lower-case letter
SheetLower ==
    SheetDto("L", <<<<"i", "d">>, <<"u", "n", "i", "t">>>>,
        << <<Entry("id", ClrLong("7")), Entry("unit", ClrString("kg"))>>,
           <<Entry("id", JsonElement("Number", "100")),
             Entry("unit", JsonElement("String", "Acme"))>> >>)

Catalog ==
    << UploadDto("report.xlsx", "alice", <<"Summary">>, <<DataSheet>>),
       UploadDto("copy.xlsx", NullString, <<>>, <<DataSheet>>),
       UploadDto("multi.xlsx", "alice", <<>>, <<SheetA, SheetB>>),
       UploadDto("multi.xlsx", "alice", <<>>, <<SheetB, SheetA>>),
       UploadDto("fields.xlsx", "bob", <<>>, <<SheetAFieldsSwapped, SheetB>>),
       UploadDto("empty1.xlsx", "alice", <<"Summary">>, <<>>),
       UploadDto("empty2.xlsx", "bob", <<"Notes", "Notes">>, <<>>),
       UploadDto("cells.xlsx", "bob", <<"Summary">>, <<SheetC, DataSheet>>),
       UploadDto("blank.xlsx", "bob", <<"Notes">>, <<DataSheet, SheetBlankHeader>>),
       UploadDto("bare.xlsx", NullString, <<>>, <<>>),
       UploadDto("nohead.xlsx", NullString, <<>>, <<SheetDto("Data", <<>>, <<>>)>>),
       UploadDto("lower.xlsx", "bob", <<>>, <<SheetLower>>) >>

\* the uploads one behaviour draws from
Scenarios == {{1, 2}, {3, 4}, {6, 7}, {1, 8}}

\* -------------------------------------------------------------------- state
Procs == {"w1", "w2"}

VARIABLES
    sessions,        \* committed ImportSessions rows
    sheets,          \* committed Sheets rows
    sheetData,       \* committed SheetData rows
    excludedSheets,  \* committed ExcludedSheets rows
    tx,              \* per request: rows written inside its open transaction
    req,             \* per request: position in SaveExcelDataAsync and its locals
    resp,            \* what the last step returned to its caller (op "none": nothing)
    files,           \* the uploads (indexes into Catalog) clients send
    batchSize,       \* ExcelProcessor:BulkInsertBatchSize
    budget,          \* SaveExcelDataAsync calls clients may still start
    clock,           \* DateTime.UtcNow
    known,           \* history: session and sheet ids ever committed
    lastUpload,      \* history: id of the session the last answered upload
                     \* returned (NoId: none, or deleted since)
    hashing,         \* two sheet payloads and their fingerprints (HashSpec)
    view             \* the React state of DataViewPage and its requests in flight

vars == <<sessions, sheets, sheetData, excludedSheets, tx, req, resp, files,
          batchSize, budget, clock, known, lastUpload, hashing, view>>

store == <<sessions, sheets, sheetData, excludedSheets>>

NoId == <<0, 0>>
NoResp == [op |-> "none"]

EmptyTx == [sessions |-> {}, sheets |-> {}, sheetData |-> {}, excludedSheets |-> {}]

IdleReq ==
    [pc |-> "idle", u |-> 0, sid |-> NoId, added |-> {}, sheetIndex |-> 0,
     sheetId |-> NoId, i |-> 0, steps |-> 0, guids |-> 0]

\* a session id that a deleted session may have had before: the least number
\* free among the stored and in-flight sessions
NewSessionGuidReused ==
    LET used == {s.id[1] : s \in sessions} \cup {req[p].sid[1] : p \in Procs}
    IN <<CHOOSE n \in 1..(Cardinality(used) + 1) :
            n \notin used /\ \A m \in 1..(n - 1) : m \in used, 0>>

\* Guid.NewGuid() for a session: a value no entity has or had. Ids are pairs
\* <<session number, number within the import>>; the session number is the
\* least one that no committed (now or ever) or in-flight import uses.
NewSessionGuid ==
    LET used == {id[1] : id \in known.sessions} \cup {req[p].sid[1] : p \in Procs}
    IN <<CHOOSE n \in 1..(Cardinality(used) + 1) :
            n \notin used /\ \A m \in 1..(n - 1) : m \in used, 0>>

\* Guid.NewGuid() for the k-th further entity request p creates
NewGuid(p, k) == <<req[p].sid[1], req[p].guids + k>>

NoHashing == [a |-> <<>>, b |-> <<>>, computed |-> FALSE,
              hashA |-> SHA256Hex(<<>>), hashB |-> SHA256Hex(<<>>)]

\* DataViewPage after its first render: the useState initial values, and the
\* getSession request the mount effect has sent
InitialView ==
    [session |-> [loaded |-> FALSE, sheets |-> <<>>],
     currentSheet |-> 0,
     sheetData |-> [isNull |-> TRUE],
     loading |-> TRUE,
     loadingSheet |-> FALSE,
     error |-> NullString,
     sessionRequest |-> TRUE,
     sheetRequests |-> [sheetId \in 1..3 |-> 0]]

\* an empty database, no request in flight
InitStore ==
    /\ sessions = {} /\ sheets = {} /\ sheetData = {} /\ excludedSheets = {}
    /\ tx = [p \in Procs |-> EmptyTx]
    /\ req = [p \in Procs |-> IdleReq]
    /\ resp = NoResp
    /\ clock = 0
    /\ known = [sessions |-> {}, sheets |-> {}, source |-> {}]
    /\ lastUpload = NoId

Init ==
    /\ InitStore
    /\ files \in Scenarios
    /\ batchSize \in 1..MaxBatchSize
    /\ budget = MaxUploads
    /\ hashing = NoHashing
    /\ view = InitialView

\* ------------------------------------------- Transactional Import Writer
\* _context.ImportSessions.FirstOrDefaultAsync(s => s.FileHash == fileHash):
\* the committed sessions the lookup can return (no ORDER BY: any of them)
FindByFileHash(fileHash) == {s \in sessions : s.fileHash = fileHash}

UploadResponseDto(p, u, message, session, processingTime) ==
    [op |-> "SaveExcelData", status |-> "ok", by |-> p, u |-> u,
     message |-> message,
     sessionId |-> session.id,
     processedSheets |-> session.processedSheets,
     totalRows |-> session.totalRows,
     excludedSheets |-> session.excludedSheets,
     processingTime |-> processingTime]

\* `new ImportSession { ... }` with every count taken from the sheet total
NewImportSessionMiscounted(id, uploadData, now) ==
    [id |-> id,
     fileName |-> uploadData.fileName,
     fileHash |-> CalculateFileHash(uploadData),
     importedBy |-> uploadData.importedBy,
     totalSheets |-> Len(uploadData.sheets),
     processedSheets |-> Len(uploadData.sheets) + Len(uploadData.metadata.excludedSheets),
     excludedSheets |-> Len(uploadData.metadata.excludedSheets),
     totalRows |-> Len(uploadData.sheets),
     importedAt |-> now,
     status |-> "Processing",
     processingTimeMs |-> -1]

\* `new ImportSession { ... }` in SaveExcelDataAsync (ProcessingTimeMs null: -1)
NewImportSession(id, uploadData, now) ==
    [id |-> id,
     fileName |-> uploadData.fileName,
     fileHash |-> CalculateFileHash(uploadData),
     importedBy |-> uploadData.importedBy,
     totalSheets |-> Len(uploadData.sheets) + Len(uploadData.metadata.excludedSheets),
     processedSheets |-> Len(uploadData.sheets),
     excludedSheets |-> Len(uploadData.metadata.excludedSheets),
     totalRows |-> SumSeq([i \in 1..Len(uploadData.sheets) |-> Len(uploadData.sheets[i].data)]),
     importedAt |-> now,
     status |-> "Processing",
     processingTimeMs |-> -1]

\* `new ExcludedSheet { ... }` for the k-th excluded name
NewExcludedSheet(id, sessionId, sheetName) ==
    [id |-> id, sessionId |-> sessionId, sheetName |-> sheetName,
     exclusionReason |-> "Excluded by user pattern matching"]

\* JsonConvert.SerializeObject(sheetData.Headers)
SerializeHeaders(headers) == [wellFormed |-> TRUE, items |-> headers]

\* `new Sheet { ... }` with the position counted from 1 (++sheetIndex)
NewSheetOneBased(id, sessionId, sheetDto, sheetIndex) ==
    [id |-> id, sessionId |-> sessionId, sheetName |-> sheetDto.sheetName,
     sheetIndex |-> sheetIndex + 1,
     rowCount |-> Len(sheetDto.data),
     columnCount |-> Len(sheetDto.headers),
     headers |-> SerializeHeaders(sheetDto.headers)]

\* `new Sheet { ... }` in SaveSheetDataAsync
NewSheet(id, sessionId, sheetDto, sheetIndex) ==
    [id |-> id, sessionId |-> sessionId, sheetName |-> sheetDto.sheetName,
     sheetIndex |-> sheetIndex,
     rowCount |-> Len(sheetDto.data),
     columnCount |-> Len(sheetDto.headers),
     headers |-> SerializeHeaders(sheetDto.headers)]

\* Skip(i).Take(size) on a list of n elements: the number of elements skipped
\* and taken (a count of 0 or less skips or takes nothing)
Skipped(i, n) == IF i <= 0 THEN 0 ELSE Min(i, n)
Taken(i, size, n) == IF size <= 0 THEN 0 ELSE Min(size, n - Skipped(i, n))

\* a batch whose rows are numbered from 0 again (RowIndex = index)
NewBatchLocalIndex(p, sheetId, data, i, size) ==
    {[id |-> NewGuid(p, index),
      sheetId |-> sheetId,
      rowIndex |-> index,
      rowData |-> EncodeRow(data[Skipped(i, Len(data)) + index + 1])] :
        index \in 0..(Taken(i, size, Len(data)) - 1)}

\* one batch of SaveSheetDataAsync: rows i .. i+size-1 of the sheet
\* (Skip(i).Take(size).Select((row, index) => new SheetData {...}))
NewBatch(p, sheetId, data, i, size) ==
    {[id |-> NewGuid(p, index),
      sheetId |-> sheetId,
      rowIndex |-> i + index,
      rowData |-> EncodeRow(data[Skipped(i, Len(data)) + index + 1])] :
        index \in 0..(Taken(i, size, Len(data)) - 1)}

\* the request handlers are interchangeable: a new request runs on the first
\* idle one
FreeHandler == IF req["w1"].pc = "idle" THEN "w1" ELSE "w2"

\* DateTime.UtcNow when an ImportSession is constructed: later than every
\* earlier reading, or equal to that of a session another import has
\* constructed and not yet committed (two constructions within one tick)
UtcNow(p) ==
    {clock + 1} \cup
    {clock : q \in {r \in Procs \ {p} : \E s \in tx[r].sessions : s.importedAt = clock}}

\* a duplicate that overwrites the stored session's file name and importer
ReturnExistingUpsert(p, u, existingSession) ==
    /\ resp' = UploadResponseDto(p, u, "File already exists", existingSession,
                  IF existingSession.processingTimeMs = -1
                  THEN 0 ELSE existingSession.processingTimeMs)
    /\ lastUpload' = existingSession.id
    /\ sessions' = (sessions \ {existingSession}) \cup
                     {[existingSession EXCEPT !.fileName = Catalog[u].fileName,
                                              !.importedBy = Catalog[u].importedBy]}
    /\ UNCHANGED <<req, sheets, sheetData, excludedSheets>>

\* lines 156-170: the existing session is answered, nothing is written
ReturnExisting(p, u, existingSession) ==
    /\ resp' = UploadResponseDto(p, u, "File already exists", existingSession,
                  IF existingSession.processingTimeMs = -1
                  THEN 0 ELSE existingSession.processingTimeMs)
    /\ lastUpload' = existingSession.id
    /\ UNCHANGED <<req, store>>

\* lines 141-172: fingerprint, duplicate lookup, short-circuit or go on to
\* open the transaction
UploadStart(p, u) ==
    /\ req[p].pc = "idle"
    /\ p = FreeHandler
    /\ budget > 0
    /\ u \in files
    /\ budget' = budget - 1
    /\ LET existing == FindByFileHash(CalculateFileHash(Catalog[u])) IN
         IF existing # {}
         THEN \E existingSession \in existing : ReturnExisting(p, u, existingSession)
         ELSE /\ req' = [req EXCEPT ![p] = [IdleReq EXCEPT !.pc = "begun", !.u = u]]
              /\ resp' = NoResp
              /\ UNCHANGED <<store, lastUpload>>
    /\ UNCHANGED <<tx, files, view, batchSize, clock, known, hashing>>

\* InsertSession with the status update placed before the sheets are saved
InsertSessionCompleted(p) ==
    /\ req[p].pc = "begun"
    /\ \E now \in UtcNow(p) :
         LET uploadData == Catalog[req[p].u]
             excluded == uploadData.metadata.excludedSheets
             session == [NewImportSession(NewSessionGuid, uploadData, now)
                           EXCEPT !.status = "Completed", !.processingTimeMs = 0]
         IN /\ clock' = now
            /\ tx' = [tx EXCEPT ![p].sessions = {session}]
            /\ req' = [req EXCEPT ![p].pc = "sheets",
                                  ![p].sid = session.id,
                                  ![p].added = {NewExcludedSheet(<<session.id[1], k>>,
                                                                 session.id, excluded[k]) :
                                                  k \in 1..Len(excluded)},
                                  ![p].sheetIndex = 0,
                                  ![p].steps = 1,
                                  ![p].guids = 1 + Len(excluded)]
    /\ resp' = NoResp
    /\ UNCHANGED <<store, files, view, batchSize, budget, known, lastUpload, hashing>>

\* lines 172-208: BeginTransactionAsync, the session entity, its first
\* SaveChangesAsync, and the excluded sheets added to the change tracker
InsertSession(p) ==
    /\ req[p].pc = "begun"
    /\ \E now \in UtcNow(p) :
         LET uploadData == Catalog[req[p].u]
             excluded == uploadData.metadata.excludedSheets
             session == NewImportSession(NewSessionGuid, uploadData, now)
         IN /\ clock' = now
            /\ tx' = [tx EXCEPT ![p].sessions = {session}]
            /\ req' = [req EXCEPT ![p].pc = "sheets",
                                  ![p].sid = session.id,
                                  ![p].added = {NewExcludedSheet(<<session.id[1], k>>,
                                                                 session.id, excluded[k]) :
                                                  k \in 1..Len(excluded)},
                                  ![p].sheetIndex = 0,
                                  ![p].steps = 1,
                                  ![p].guids = 1 + Len(excluded)]
    /\ resp' = NoResp
    /\ UNCHANGED <<store, files, view, batchSize, budget, known, lastUpload, hashing>>

\* SaveSheetDataAsync up to the row loop: the Sheet entity and the
\* SaveChangesAsync that yields its id (and flushes what the tracker holds)
SaveSheetDataAsync(p) ==
    /\ req[p].pc = "sheets"
    /\ req[p].sheetIndex < Len(Catalog[req[p].u].sheets)
    /\ LET sheetDto == Catalog[req[p].u].sheets[req[p].sheetIndex + 1]
           sheet == NewSheet(NewGuid(p, 0), req[p].sid, sheetDto, req[p].sheetIndex)
       IN /\ tx' = [tx EXCEPT ![p].sheets = @ \cup {sheet},
                              ![p].excludedSheets = @ \cup req[p].added]
          /\ req' = [req EXCEPT
                        ![p].added = {},
                        ![p].steps = @ + 1,
                        ![p].sheetId = sheet.id,
                        ![p].i = 0,
                        ![p].pc = IF 0 < Len(sheetDto.data) THEN "rows" ELSE "sheets",
                        ![p].sheetIndex = IF 0 < Len(sheetDto.data) THEN @ ELSE @ + 1,
                        ![p].guids = @ + 1]
    /\ resp' = NoResp
    /\ UNCHANGED <<store, files, view, batchSize, budget, clock, known, lastUpload, hashing>>

\* int: 32 bits, two's complement
Int32Max == 2147483647
Int32Min == 0 - Int32Max - 1

\* a + b in unchecked int arithmetic (i += batchSize)
Int32Add(a, b) ==
    IF a > 0 /\ b > 0 /\ a > Int32Max - b THEN (a + Int32Min) + (b + Int32Min)
    ELSE IF a < 0 /\ b < 0 /\ a < Int32Min - b THEN (a - Int32Min) + (b - Int32Min)
    ELSE a + b

\* one iteration of the row loop of SaveSheetDataAsync: AddRange + SaveChangesAsync
SaveBatch(p) ==
    /\ req[p].pc = "rows"
    /\ LET data == Catalog[req[p].u].sheets[req[p].sheetIndex + 1].data
           batch == NewBatch(p, req[p].sheetId, data, req[p].i, batchSize)
           next == Int32Add(req[p].i, batchSize)
       IN /\ tx' = [tx EXCEPT ![p].sheetData = @ \cup batch]
          /\ req' = [req EXCEPT
                        ![p].steps = Min(@ + 1, MaxSteps),
                        ![p].i = next,
                        ![p].pc = IF next < Len(data) THEN "rows" ELSE "sheets",
                        ![p].sheetIndex = IF next < Len(data) THEN @ ELSE @ + 1,
                        ![p].guids = @ + Cardinality(batch)]
    /\ resp' = NoResp
    /\ UNCHANGED <<store, files, view, batchSize, budget, clock, known, lastUpload, hashing>>

\* the final SaveChangesAsync leaving the tracked excluded sheets unwritten
CompleteSessionNoFlush(p) ==
    /\ req[p].pc = "sheets"
    /\ req[p].sheetIndex = Len(Catalog[req[p].u].sheets)
    /\ tx' = [tx EXCEPT
                ![p].sessions = {[s EXCEPT !.status = "Completed",
                                           !.processingTimeMs = req[p].steps] : s \in @}]
    /\ req' = [req EXCEPT ![p].pc = "commit", ![p].added = {}, ![p].steps = @ + 1]
    /\ resp' = NoResp
    /\ UNCHANGED <<store, files, view, batchSize, budget, clock, known, lastUpload, hashing>>

\* lines 214-218: status Completed, elapsed time, SaveChangesAsync (which also
\* writes the excluded sheets still held by the change tracker)
CompleteSession(p) ==
    /\ req[p].pc = "sheets"
    /\ req[p].sheetIndex = Len(Catalog[req[p].u].sheets)
    /\ tx' = [tx EXCEPT
                ![p].sessions = {[s EXCEPT !.status = "Completed",
                                           !.processingTimeMs = req[p].steps] : s \in @},
                ![p].excludedSheets = @ \cup req[p].added]
    /\ req' = [req EXCEPT ![p].pc = "commit", ![p].added = {}, ![p].steps = @ + 1]
    /\ resp' = NoResp
    /\ UNCHANGED <<store, files, view, batchSize, budget, clock, known, lastUpload, hashing>>

\* lines 219-232: CommitAsync and the response
CommitAsync(p) ==
    /\ req[p].pc = "commit"
    /\ sessions' = sessions \cup tx[p].sessions
    /\ sheets' = sheets \cup tx[p].sheets
    /\ sheetData' = sheetData \cup tx[p].sheetData
    /\ excludedSheets' = excludedSheets \cup tx[p].excludedSheets
    /\ tx' = [tx EXCEPT ![p] = EmptyTx]
    /\ req' = [req EXCEPT ![p] = IdleReq]
    /\ \E session \in tx[p].sessions :
         /\ resp' = UploadResponseDto(p, req[p].u, "Excel data saved successfully",
                                      session, req[p].steps)
         /\ lastUpload' = session.id
    /\ known' = [sessions |-> known.sessions \cup {s.id : s \in tx[p].sessions},
                 sheets |-> known.sheets \cup {s.id : s \in tx[p].sheets},
                 source |-> known.source \cup
                              {[sheet |-> s.id, u |-> req[p].u, index |-> s.sheetIndex + 1] :
                                  s \in tx[p].sheets}]
    /\ UNCHANGED <<files, view, batchSize, budget, clock, hashing>>

Errors == {"DbUpdateException", "SqlException"}

\* a failed step whose transaction is committed as far as it got
RollbackAsyncPartial(p, error) ==
    /\ req[p].pc \in {"begun", "sheets", "rows", "commit"}
    /\ sessions' = sessions \cup tx[p].sessions
    /\ sheets' = sheets \cup tx[p].sheets
    /\ sheetData' = sheetData \cup tx[p].sheetData
    /\ excludedSheets' = excludedSheets \cup tx[p].excludedSheets
    /\ tx' = [tx EXCEPT ![p] = EmptyTx]
    /\ req' = [req EXCEPT ![p] = IdleReq]
    /\ resp' = [op |-> "SaveExcelData", status |-> "error", by |-> p, u |-> req[p].u,
                error |-> error, thrown |-> error, sessionId |-> req[p].sid,
                sheetsWritten |-> Cardinality(tx[p].sheets)]
    /\ UNCHANGED <<files, view, batchSize, budget, clock, known, lastUpload, hashing>>

\* lines 234-244: the pending step throws `error`; RollbackAsync; rethrow
RollbackAsync(p, error) ==
    /\ req[p].pc \in {"begun", "sheets", "rows", "commit"}
    /\ tx' = [tx EXCEPT ![p] = EmptyTx]
    /\ req' = [req EXCEPT ![p] = IdleReq]
    /\ resp' = [op |-> "SaveExcelData", status |-> "error", by |-> p, u |-> req[p].u,
                error |-> error, thrown |-> error, sessionId |-> req[p].sid,
                sheetsWritten |-> Cardinality(tx[p].sheets)]
    /\ UNCHANGED <<store, files, view, batchSize, budget, clock, known, lastUpload, hashing>>

\* ------------------------------------------------------ Query & Search Layer
\* the comparison with every sort direction reversed
LexGreater(a, b) ==
    \E i \in 1..Len(a) : a[i] > b[i] /\ \A j \in 1..(i - 1) : a[j] = b[j]

\* lexicographic order on equal-length tuples of integers
LexLess(a, b) ==
    \E i \in 1..Len(a) : a[i] < b[i] /\ \A j \in 1..(i - 1) : a[j] = b[j]

\* OrderBy: the elements of S as a sequence, ascending in key (a function on S)
RECURSIVE SortSet(_, _)
SortSet(S, key) ==
    IF S = {} THEN <<>>
    ELSE LET m == CHOOSE x \in S : \A y \in S : ~LexLess(key[y], key[x])
         IN <<m>> \o SortSet(S \ {m}, key)

\* the ways the database may order rows whose sort keys are equal: a ranking
\* of the committed sessions
TieBreaks ==
    LET ids == {s.id : s \in sessions}
    IN {f \in [ids -> 1..Cardinality(ids)] : \A a, b \in ids : a # b => f[a] # f[b]}

\* Skip((pageNumber - 1) * pageSize).Take(pageSize)
SkipTake(seq, pageNumber, pageSize) ==
    LET first == (pageNumber - 1) * pageSize + 1
        last == Min(pageNumber * pageSize, Len(seq))
    IN IF first > last THEN <<>> ELSE SubSeq(seq, first, last)

\* totalPages by integer division, rounding down
TotalPagesFloor(totalRecords, pageSize) == totalRecords \div pageSize

\* (int)Math.Ceiling((double)totalRecords / pageSize), pageSize >= 1
TotalPages(totalRecords, pageSize) ==
    IF totalRecords % pageSize = 0
    THEN totalRecords \div pageSize
    ELSE totalRecords \div pageSize + 1

\* new PagedResponseDto<T> { ... }
PagedResponseDto(op, request, data, pageNumber, pageSize, totalRecords) ==
    [op |-> op, status |-> "ok", request |-> request,
     data |-> data,
     currentPage |-> pageNumber,
     pageSize |-> pageSize,
     totalRecords |-> totalRecords,
     totalPages |-> TotalPages(totalRecords, pageSize),
     hasNextPage |-> pageNumber < TotalPages(totalRecords, pageSize),
     hasPreviousPage |-> pageNumber > 1]

\* char.ToLower on the letters header strings use
ToLower(c) ==
    CASE c = "N" -> "n"
      [] c = "A" -> "a"
      [] c = "D" -> "d"
      [] c = "O" -> "o"
      [] c = "B" -> "b"
      [] OTHER -> c

\* h => char.ToLower(h[0]) + h.Substring(1)
Decapitalize(h) == <<ToLower(h[1])>> \o Tail(h)

\* JsonConvert.DeserializeObject<List<string>>(Headers) followed by the
\* decapitalizing Select: it throws on a text that is no JSON array and on an
\* empty header string (h[0])
HeadersThrow(headersText) ==
    \/ ~headersText.wellFormed
    \/ \E i \in 1..Len(headersText.items) : headersText.items[i] = <<>>

ReadHeaders(headersText) ==
    [i \in 1..Len(headersText.items) |-> Decapitalize(headersText.items[i])]

SheetsOf(sessionId) == {s \in sheets : s.sessionId = sessionId}
ExcludedOf(sessionId) == {e \in excludedSheets : e.sessionId = sessionId}
RowsOf(sheetId) == {d \in sheetData : d.sheetId = sheetId}

\* GetSessionDataAsync
GetSessionDataAsync(sessionId) ==
    /\ sessionId \in known.sessions \cup {NoId}
    /\ LET found == {s \in sessions : s.id = sessionId} IN
         IF found = {}
         THEN resp' = [op |-> "GetSessionData", status |-> "notfound", id |-> sessionId]
         ELSE LET session == CHOOSE s \in found : TRUE
                  own == SheetsOf(sessionId)
                  ordered == SortSet(own, [s \in own |-> <<s.sheetIndex>>])
                  excl == ExcludedOf(sessionId)
                  exclList == SortSet(excl, [e \in excl |-> <<e.id[2]>>])
              IN IF \E s \in own : HeadersThrow(s.headers)
                 THEN resp' = [op |-> "GetSessionData", status |-> "error", id |-> sessionId]
                 ELSE resp' =
                        [op |-> "GetSessionData", status |-> "ok", id |-> session.id,
                         fileName |-> session.fileName,
                         importedAt |-> session.importedAt,
                         totalSheets |-> session.totalSheets,
                         processedSheets |-> session.processedSheets,
                         excludedSheets |-> session.excludedSheets,
                         totalRows |-> session.totalRows,
                         sessionStatus |-> session.status,
                         sheets |-> [i \in 1..Len(ordered) |->
                                       [id |-> ordered[i].id,
                                        sheetName |-> ordered[i].sheetName,
                                        sheetIndex |-> ordered[i].sheetIndex,
                                        rowCount |-> ordered[i].rowCount,
                                        columnCount |-> ordered[i].columnCount,
                                        headers |-> ReadHeaders(ordered[i].headers)]],
                         excludedSheetsList |-> [i \in 1..Len(exclList) |->
                                       [sheetName |-> exclList[i].sheetName,
                                        exclusionReason |-> exclList[i].exclusionReason]]]
    /\ UNCHANGED <<store, tx, req, files, view, batchSize, budget, clock, known, lastUpload, hashing>>

\* GetSheetDetailAsync
GetSheetDetailAsync(sheetId) ==
    /\ sheetId \in known.sheets \cup {NoId}
    /\ LET found == {s \in sheets : s.id = sheetId} IN
         IF found = {}
         THEN resp' = [op |-> "GetSheetDetail", status |-> "notfound", id |-> sheetId]
         ELSE LET sheet == CHOOSE s \in found : TRUE
                  rows == RowsOf(sheetId)
                  ordered == SortSet(rows, [d \in rows |-> <<d.rowIndex>>])
              IN IF HeadersThrow(sheet.headers)
                 THEN resp' = [op |-> "GetSheetDetail", status |-> "error", id |-> sheetId]
                 ELSE resp' =
                        [op |-> "GetSheetDetail", status |-> "ok", id |-> sheet.id,
                         sheetName |-> sheet.sheetName,
                         sheetIndex |-> sheet.sheetIndex,
                         headers |-> ReadHeaders(sheet.headers),
                         data |-> [i \in 1..Len(ordered) |->
                                     ConvertLegacyData(ordered[i].rowData)]]
    /\ UNCHANGED <<store, tx, req, files, view, batchSize, budget, clock, known, lastUpload, hashing>>

\* GetSessionsAsync reading uncommitted rows (READ UNCOMMITTED / NOLOCK)
GetSessionsAsyncNoLock(pageNumber, pageSize) ==
    /\ LET visible == sessions \cup UNION {tx[p].sessions : p \in Procs}
           query == SortSet(visible,
                            [s \in visible |-> <<0 - s.importedAt, s.id[1]>>])
           page == SkipTake(query, pageNumber, pageSize)
       IN resp' = PagedResponseDto("GetSessions",
                      [pageNumber |-> pageNumber, pageSize |-> pageSize,
                       searchTerm |-> <<>>, sessionId |-> NoId],
                      [i \in 1..Len(page) |->
                          [id |-> page[i].id,
                           fileName |-> page[i].fileName,
                           importedAt |-> page[i].importedAt,
                           totalSheets |-> page[i].totalSheets,
                           processedSheets |-> page[i].processedSheets,
                           totalRows |-> page[i].totalRows,
                           sessionStatus |-> page[i].status]],
                      pageNumber, pageSize, Cardinality(visible))
    /\ UNCHANGED <<store, tx, req, files, view, batchSize, budget, clock, known, lastUpload, hashing>>

\* GetSessionsAsync
GetSessionsAsync(pageNumber, pageSize) ==
    /\ \E tie \in TieBreaks :
         LET query == SortSet(sessions,
                              [s \in sessions |-> <<0 - s.importedAt, tie[s.id]>>])
             page == SkipTake(query, pageNumber, pageSize)
         IN resp' = PagedResponseDto("GetSessions",
                        [pageNumber |-> pageNumber, pageSize |-> pageSize,
                         searchTerm |-> <<>>, sessionId |-> NoId],
                        [i \in 1..Len(page) |->
                            [id |-> page[i].id,
                             fileName |-> page[i].fileName,
                             importedAt |-> page[i].importedAt,
                             totalSheets |-> page[i].totalSheets,
                             processedSheets |-> page[i].processedSheets,
                             totalRows |-> page[i].totalRows,
                             sessionStatus |-> page[i].status]],
                        pageNumber, pageSize, Cardinality(sessions))
    /\ UNCHANGED <<store, tx, req, files, view, batchSize, budget, clock, known, lastUpload, hashing>>

\* the stored text of a row, lexeme by lexeme
RECURSIVE MembersText(_)
MembersText(members) ==
    IF members = <<>> THEN <<>>
    ELSE LET m == Head(members)
             lexemes == IF m.value.t = "object"
                        THEN <<m.name, ":", "{", "ValueKind", ":", m.value.vk>>
                               \o (IF m.value.v = Absent THEN <<>>
                                   ELSE <<",", "Value", ":", m.value.v>>)
                               \o <<"}">>
                        ELSE <<m.name, ":", m.value.v>>
         IN lexemes \o (IF Tail(members) = <<>> THEN <<>> ELSE <<",">>)
                    \o MembersText(Tail(members))

RowText(rowData) ==
    IF rowData.wellFormed THEN <<"{">> \o MembersText(rowData.members) \o <<"}">>
    ELSE <<"{">> \o MembersText(rowData.members)

\* sd.RowData.Contains(searchTerm)
Contains(text, term) ==
    \E i \in 1..(Len(text) + 1) :
        /\ i + Len(term) - 1 <= Len(text)
        /\ \A k \in 1..Len(term) : text[i + k - 1] = term[k]

\* (SearchRequestDto.SearchTerm is [Required]: never empty)
SearchTerms == {<<"Name">>, <<"Amount", ":", "12.5">>, <<"zzz">>}

\* OFFSET ... ROWS FETCH NEXT ... ROWS ONLY: SQL Server refuses a negative
\* offset and a fetch of less than one row, and the query throws
OffsetFetchFails(pageNumber, pageSize) ==
    \/ (pageNumber - 1) * pageSize < 0
    \/ pageSize < 1

\* SearchDataAsync; sessionId = NoId: no session filter
SearchDataAsync(searchTerm, sessionId, pageNumber, pageSize) ==
    /\ IF OffsetFetchFails(pageNumber, pageSize)
       THEN resp' = [op |-> "SearchData", status |-> "error",
                     request |-> [pageNumber |-> pageNumber, pageSize |-> pageSize,
                                  searchTerm |-> searchTerm, sessionId |-> sessionId]]
       ELSE
       \E tie \in TieBreaks :
         LET SheetOf(d) == CHOOSE s \in sheets : s.id = d.sheetId
             SessionOf(d) == CHOOSE s \in sessions : s.id = SheetOf(d).sessionId
             joined == {d \in sheetData :
                          /\ \E s \in sheets : s.id = d.sheetId
                          /\ \E s \in sessions : s.id = SheetOf(d).sessionId}
             query == {d \in joined :
                          /\ Contains(RowText(d.rowData), searchTerm)
                          /\ sessionId # NoId => SheetOf(d).sessionId = sessionId}
             ordered == SortSet(query,
                           [d \in query |-> <<0 - SessionOf(d).importedAt,
                                              SheetOf(d).sheetIndex,
                                              d.rowIndex,
                                              tie[SessionOf(d).id]>>])
             page == SkipTake(ordered, pageNumber, pageSize)
         IN resp' = PagedResponseDto("SearchData",
                        [pageNumber |-> pageNumber, pageSize |-> pageSize,
                         searchTerm |-> searchTerm, sessionId |-> sessionId],
                        [i \in 1..Len(page) |->
                            [sheetName |-> SheetOf(page[i]).sheetName,
                             rowIndex |-> page[i].rowIndex,
                             rowData |-> ConvertLegacyData(page[i].rowData),
                             fileName |-> SessionOf(page[i]).fileName,
                             importedAt |-> SessionOf(page[i]).importedAt,
                             sessionId |-> SheetOf(page[i]).sessionId]],
                        pageNumber, pageSize, Cardinality(query))
    /\ UNCHANGED <<store, tx, req, files, view, batchSize, budget, clock, known, lastUpload, hashing>>

\* DeleteSessionAsync where the database keeps the children of a removed session
DeleteSessionAsyncNoCascade(sessionId) ==
    /\ sessionId \in known.sessions \cup {NoId}
    /\ IF \E s \in sessions : s.id = sessionId
       THEN /\ sessions' = {s \in sessions : s.id # sessionId}
            /\ UNCHANGED <<sheets, sheetData, excludedSheets>>
            /\ resp' = [op |-> "DeleteSession", status |-> "ok", id |-> sessionId,
                        deleted |-> TRUE]
       ELSE /\ resp' = [op |-> "DeleteSession", status |-> "ok", id |-> sessionId,
                        deleted |-> FALSE]
            /\ UNCHANGED store
    /\ lastUpload' = IF lastUpload = sessionId THEN NoId ELSE lastUpload
    /\ UNCHANGED <<tx, req, files, view, batchSize, budget, clock, known, hashing>>

\* DeleteSessionAsync: FindAsync, Remove, SaveChangesAsync; the foreign keys
\* Sheets -> ImportSessions, ExcludedSheets -> ImportSessions and
\* SheetData -> Sheets are ON DELETE CASCADE
DeleteSessionAsync(sessionId) ==
    /\ sessionId \in known.sessions \cup {NoId}
    /\ IF \E s \in sessions : s.id = sessionId
       THEN /\ sessions' = {s \in sessions : s.id # sessionId}
            /\ sheets' = sheets \ SheetsOf(sessionId)
            /\ excludedSheets' = excludedSheets \ ExcludedOf(sessionId)
            /\ sheetData' = {d \in sheetData :
                                d.sheetId \notin {s.id : s \in SheetsOf(sessionId)}}
            /\ resp' = [op |-> "DeleteSession", status |-> "ok", id |-> sessionId,
                        deleted |-> TRUE]
       ELSE /\ resp' = [op |-> "DeleteSession", status |-> "ok", id |-> sessionId,
                        deleted |-> FALSE]
            /\ UNCHANGED store
    /\ lastUpload' = IF lastUpload = sessionId THEN NoId ELSE lastUpload
    /\ UNCHANGED <<tx, req, files, view, batchSize, budget, clock, known, hashing>>

\* ------------------------------------------------------------ specification
\* imports (with their faults) and deletion
Next ==
    \/ \E p \in Procs, u \in 1..Len(Catalog) : UploadStart(p, u)
    \/ \E p \in Procs : InsertSession(p)
    \/ \E p \in Procs : SaveSheetDataAsync(p)
    \/ \E p \in Procs : SaveBatch(p)
    \/ \E p \in Procs : CompleteSession(p)
    \/ \E p \in Procs : CommitAsync(p)
    \/ \E p \in Procs, error \in Errors : RollbackAsync(p, error)
    \/ \E id \in known.sessions \cup {NoId} : DeleteSessionAsync(id)

Spec == Init /\ [][Next]_vars

\* the same, with the two lookups by id
DetailNext ==
    \/ Next
    \/ \E id \in known.sessions \cup {NoId} : GetSessionDataAsync(id)
    \/ \E id \in known.sheets \cup {NoId} : GetSheetDetailAsync(id)

\* ... over the same uploads and over "blank.xlsx"
DetailInit ==
    /\ InitStore
    /\ files \in Scenarios \cup {{9}}
    /\ batchSize \in 1..MaxBatchSize
    /\ budget = MaxUploads
    /\ hashing = NoHashing
    /\ view = InitialView

DetailSpec == DetailInit /\ [][DetailNext]_vars

\* the same steps over "report.xlsx" (capitalised header cells) and
\* "lower.xlsx" (lower-case header cells)
HeaderInit ==
    /\ InitStore
    /\ files \in {{1}, {12}, {1, 12}}
    /\ batchSize \in 1..MaxBatchSize
    /\ budget = MaxUploads
    /\ hashing = NoHashing
    /\ view = InitialView

HeaderSpec == HeaderInit /\ [][DetailNext]_vars

\* the same, with the paginated listing and the search, over the uploads
\* "report.xlsx" and "cells.xlsx"
QueryInit ==
    /\ InitStore
    /\ files = {1, 8}
    /\ batchSize = MaxBatchSize
    /\ budget = MaxUploads
    /\ hashing = NoHashing
    /\ view = InitialView

QueryNext ==
    \/ DetailNext
    \/ \E pageNumber \in 1..MaxPageNumber, pageSize \in 1..MaxPageSize :
          GetSessionsAsync(pageNumber, pageSize)
    \/ \E searchTerm \in SearchTerms, id \in known.sessions \cup {NoId},
          pageNumber \in 1..MaxPageNumber, pageSize \in 1..MaxPageSize :
          SearchDataAsync(searchTerm, id, pageNumber, pageSize)

QuerySpec == QueryInit /\ [][QueryNext]_vars

\* a database that holds a session imported by the earlier generation of the
\* service: one sheet, two rows in the stored texts of that time
LegacyValues ==
    {JTagged(code, Absent) : code \in {"0", "1", "2", "3", "4", "5", "6", "7", "8"}}
      \cup {JTagged("3", "Acme"), JTagged("3", ""), JTagged("4", "12.5"),
             JTagged("4", "7"), JTagged("4", "abc"),
             JString("Acme"), JInteger("7"), JNull,
             JString("2024-01-15T00:00:00"), JFloat("12.5"), JBoolean("true")}

\* a text that is no JSON object: a row text cut off before its closing brace
CorruptText == [wellFormed |-> FALSE, members |-> <<Entry("Name", JString("Acme"))>>]

LegacyTexts ==
    {[wellFormed |-> TRUE, members |-> <<Entry("Name", v)>>] : v \in LegacyValues}
      \cup {CorruptText}

LegacyInit ==
    /\ sessions = {[id |-> <<1, 0>>, fileName |-> "legacy.xlsx",
                     fileHash |-> SHA256Hex(<<"legacy">>), importedBy |-> NullString,
                     totalSheets |-> 1, processedSheets |-> 1, excludedSheets |-> 0,
                     totalRows |-> 2, importedAt |-> 0, status |-> "Completed",
                     processingTimeMs |-> 1]}
    /\ sheets = {[id |-> <<1, 1>>, sessionId |-> <<1, 0>>, sheetName |-> "Data",
                   sheetIndex |-> 0, rowCount |-> 2, columnCount |-> 1,
                   headers |-> SerializeHeaders(<<NameH>>)]}
    /\ \E first, second \in LegacyTexts :
          sheetData = {[id |-> <<1, 2>>, sheetId |-> <<1, 1>>, rowIndex |-> 0,
                        rowData |-> first],
                       [id |-> <<1, 3>>, sheetId |-> <<1, 1>>, rowIndex |-> 1,
                        rowData |-> second]}
    /\ excludedSheets = {}
    /\ tx = [p \in Procs |-> EmptyTx]
    /\ req = [p \in Procs |-> IdleReq]
    /\ resp = NoResp
    /\ clock = 0
    /\ known = [sessions |-> {<<1, 0>>}, sheets |-> {<<1, 1>>}, source |-> {}]
    /\ lastUpload = NoId
    /\ files = {}
    /\ batchSize = 1
    /\ budget = 0
    /\ hashing = NoHashing
    /\ view = InitialView

LegacyNext ==
    \/ \E id \in known.sheets \cup {NoId} : GetSheetDetailAsync(id)
    \/ \E searchTerm \in SearchTerms, id \in known.sessions \cup {NoId},
          pageNumber \in 1..MaxPageNumber, pageSize \in 1..MaxPageSize :
          SearchDataAsync(searchTerm, id, pageNumber, pageSize)

LegacySpec == LegacyInit /\ [][LegacyNext]_vars

\* ------------------------------------------------------- the upload endpoint
\* a property of a request body: given with a value, given as null, or not
\* given at all
Given(value) == [present |-> "value", value |-> value]
Missing == [present |-> "missing", value |-> <<>>]
Null == [present |-> "null", value |-> <<>>]

RawSheet(key, sheetName, headers, data) ==
    [key |-> key, sheetName |-> sheetName, headers |-> headers, data |-> data]

RawUpload(fileName, metadata, sheetMap) ==
    [fileName |-> fileName, metadata |-> metadata, sheets |-> sheetMap]

\* the request bodies clients post to api/excel/upload
Requests ==
    << RawUpload(Given("copy.xlsx"), Given([excludedSheets |-> <<>>]),
                 Given(<<RawSheet("Data", Given("Data"), Given(DataSheet.headers),
                                  Given(DataSheet.data))>>)),
       RawUpload(Given("bare.xlsx"), Missing, Missing),
       RawUpload(Given("nohead.xlsx"), Given([excludedSheets |-> <<>>]),
                 Given(<<RawSheet("Data", Given("Data"), Missing, Missing)>>)),
       RawUpload(Missing, Given([excludedSheets |-> <<>>]),
                 Given(<<RawSheet("Data", Given("Data"), Given(DataSheet.headers),
                                  Given(DataSheet.data))>>)),
       RawUpload(Null, Given([excludedSheets |-> <<>>]),
                 Given(<<RawSheet("Data", Missing, Given(DataSheet.headers),
                                  Given(DataSheet.data))>>)),
       RawUpload(Given("nulls.xlsx"), Null, Null),
       RawUpload(Missing, Missing, Given(<<>>)),
       RawUpload(Given(""), Given([excludedSheets |-> <<>>]),
                 Given(<<RawSheet("Data", Given("Data"), Null, Null)>>)) >>

\* [FromBody] binding: a property the body does not give keeps its
\* initializer (string.Empty, new())
Bind(raw) ==
    LET Or(field, initial) == IF field.present = "value" THEN field.value ELSE initial
        sheetMap == Or(raw.sheets, <<>>)
    IN [fileName |-> Or(raw.fileName, ""),
        importedBy |-> NullString,
        metadata |-> Or(raw.metadata, [excludedSheets |-> <<>>]),
        sheets |-> [i \in 1..Len(sheetMap) |->
                      [key |-> sheetMap[i].key,
                       sheetName |-> Or(sheetMap[i].sheetName, ""),
                       headers |-> Or(sheetMap[i].headers, <<>>),
                       data |-> Or(sheetMap[i].data, <<>>)]]]

\* [Required] on the bound object: null fails, and so does the empty string
\* (which is also what a string property keeps when the body does not give it)
RequiredFails(field, isString) ==
    \/ field.present = "null"
    \/ isString /\ field.present = "missing"
    \/ isString /\ field.present = "value" /\ field.value = ""

RECURSIVE SheetErrors(_)
SheetErrors(sheetMap) ==
    IF sheetMap = <<>> THEN <<>>
    ELSE LET sheet == Head(sheetMap)
         IN (IF RequiredFails(sheet.sheetName, TRUE)
                THEN <<"The SheetName field is required.">> ELSE <<>>)
              \o (IF RequiredFails(sheet.headers, FALSE)
                     THEN <<"The Headers field is required.">> ELSE <<>>)
              \o (IF RequiredFails(sheet.data, FALSE)
                     THEN <<"The Data field is required.">> ELSE <<>>)
              \o SheetErrors(Tail(sheetMap))

\* ModelState errors of a bound ExcelUploadDto
ModelStateErrors(raw) ==
    (IF RequiredFails(raw.fileName, TRUE)
        THEN <<"The FileName field is required.">> ELSE <<>>)
      \o (IF RequiredFails(raw.metadata, FALSE)
             THEN <<"The Metadata field is required.">> ELSE <<>>)
      \o (IF RequiredFails(raw.sheets, FALSE)
             THEN <<"The Sheets field is required.">>
             ELSE SheetErrors(IF raw.sheets.present = "value" THEN raw.sheets.value ELSE <<>>))

\* ExcelController.UploadExcelData: BadRequest with the ModelState errors, or
\* SaveExcelDataAsync on the bound object
UploadExcelData(p, r) ==
    LET errors == ModelStateErrors(Requests[r]) IN
    IF errors # <<>>
    THEN /\ req[p].pc = "idle"
         /\ p = FreeHandler
         /\ budget > 0
         /\ budget' = budget - 1
         /\ resp' = [op |-> "UploadExcelData", status |-> "badrequest", r |-> r,
                     message |-> "Invalid upload data", errors |-> errors]
         /\ UNCHANGED <<store, tx, req, files, view, batchSize, clock, known, lastUpload, hashing>>
    ELSE \E u \in 1..Len(Catalog) :
            /\ Catalog[u] = Bind(Requests[r])
            /\ UploadStart(p, u)

\* uploads through the endpoint: "copy.xlsx", "bare.xlsx", "nohead.xlsx"
ApiInit ==
    /\ InitStore
    /\ files \in {{2, 10}, {10, 11}, {2, 11}}
    /\ batchSize \in 1..MaxBatchSize
    /\ budget = MaxUploads
    /\ hashing = NoHashing
    /\ view = InitialView

ApiNext ==
    \/ \E p \in Procs, r \in 1..Len(Requests) : UploadExcelData(p, r)
    \/ \E p \in Procs : InsertSession(p)
    \/ \E p \in Procs : SaveSheetDataAsync(p)
    \/ \E p \in Procs : SaveBatch(p)
    \/ \E p \in Procs : CompleteSession(p)
    \/ \E p \in Procs : CommitAsync(p)
    \/ \E p \in Procs, error \in Errors : RollbackAsync(p, error)

ApiSpec == ApiInit /\ [][ApiNext]_vars

\* ------------------------------------------ the two paginated endpoints
\* int pageNumber, int pageSize of a query string or a request body
PageNumbers == {0 - 1, 0} \cup 1..MaxPageNumber
PageSizes == {0 - 1, 0, 101} \cup 1..MaxPageSize

\* the search terms of a request body; <<>> is the empty or missing term
SearchRequestTerms == {<<"Name">>, <<"zzz">>, <<>>}

\* ExcelController.GetSessions: [Range(1, int.MaxValue)] pageNumber and
\* [Range(1, 100)] pageSize are validated before the action runs
GetSessions(pageNumber, pageSize) ==
    IF pageNumber < 1 \/ pageSize < 1 \/ pageSize > 100
    THEN /\ resp' = [op |-> "GetSessions", status |-> "badrequest",
                     request |-> [pageNumber |-> pageNumber, pageSize |-> pageSize,
                                  searchTerm |-> <<>>, sessionId |-> NoId]]
         /\ UNCHANGED <<store, tx, req, files, view, batchSize, budget, clock, known,
                        lastUpload, hashing>>
    ELSE GetSessionsAsync(pageNumber, pageSize)

\* ExcelController.SearchData: BadRequest when ModelState is invalid (the only
\* attribute of SearchRequestDto is [Required] on SearchTerm), else
\* SearchDataAsync on the bound request; an exception is answered with 500
SearchData(searchTerm, sessionId, pageNumber, pageSize) ==
    IF searchTerm = <<>>
    THEN /\ resp' = [op |-> "SearchData", status |-> "badrequest",
                     request |-> [pageNumber |-> pageNumber, pageSize |-> pageSize,
                                  searchTerm |-> searchTerm, sessionId |-> sessionId]]
         /\ UNCHANGED <<store, tx, req, files, view, batchSize, budget, clock, known,
                        lastUpload, hashing>>
    ELSE SearchDataAsync(searchTerm, sessionId, pageNumber, pageSize)

PagingNext ==
    \/ Next
    \/ \E pageNumber \in PageNumbers, pageSize \in PageSizes :
          GetSessions(pageNumber, pageSize)
    \/ \E searchTerm \in SearchRequestTerms, id \in known.sessions \cup {NoId},
          pageNumber \in PageNumbers, pageSize \in PageSizes :
          SearchData(searchTerm, id, pageNumber, pageSize)

\* ... over the upload "report.xlsx"
PagingInit ==
    /\ InitStore
    /\ files = {1}
    /\ batchSize = MaxBatchSize
    /\ budget = MaxUploads
    /\ hashing = NoHashing
    /\ view = InitialView

PagingSpec == PagingInit /\ [][PagingNext]_vars

\* ------------------------------------------------- the batch-size setting
\* values GetValue<int>("ExcelProcessor:BulkInsertBatchSize", 1000) can return
BatchSizes == {Int32Min, 0 - 1073741824, 0, 1, MaxBatchSize}

BatchInit ==
    /\ InitStore
    /\ files \in {{3, 4}, {1, 8}}
    /\ batchSize \in BatchSizes
    /\ budget = MaxUploads
    /\ hashing = NoHashing
    /\ view = InitialView

\* the steps of SaveExcelDataAsync after its start, a fault apart
ImportStep(p) ==
    \/ InsertSession(p)
    \/ SaveSheetDataAsync(p)
    \/ SaveBatch(p)
    \/ CompleteSession(p)
    \/ CommitAsync(p)

BatchNext ==
    \/ \E p \in Procs, u \in 1..Len(Catalog) : UploadStart(p, u)
    \/ \E p \in Procs : ImportStep(p)
    \/ \E p \in Procs, error \in Errors : RollbackAsync(p, error)

\* a started import keeps running (awaits complete); faults may or may not
\* happen
BatchSpec ==
    /\ BatchInit
    /\ [][BatchNext]_vars
    /\ \A p \in Procs : WF_vars(ImportStep(p))

\* three uploads of one workbook under two file names ("report.xlsx" and
\* "copy.xlsx"), two of them possibly concurrent
RaceInit ==
    /\ InitStore
    /\ files = {1, 2}
    /\ batchSize = 1
    /\ budget = MaxUploads + 1
    /\ hashing = NoHashing
    /\ view = InitialView

RaceSpec == RaceInit /\ [][Next]_vars

\* the fingerprint as a function: two sheet payloads and their fingerprints
SheetMaps ==
    LET pool == {SheetA, SheetAFieldsSwapped, SheetB, SheetC, DataSheet, DataSheetOther}
    IN {<<>>} \cup {<<x>> : x \in pool}
              \cup {m \in {<<x, y>> : x \in pool, y \in pool} : m[1].key # m[2].key}

HashInit ==
    /\ InitStore
    /\ files = {}
    /\ batchSize = 1
    /\ budget = 0
    /\ hashing \in {[NoHashing EXCEPT !.a = x, !.b = y] : x, y \in SheetMaps}
    /\ view = InitialView

ComputeHashes ==
    /\ ~hashing.computed
    /\ hashing' = [hashing EXCEPT
                      !.computed = TRUE,
                      !.hashA = CalculateFileHash(UploadDto("a.xlsx", NullString, <<>>, hashing.a)),
                      !.hashB = CalculateFileHash(UploadDto("b.xlsx", NullString, <<>>, hashing.b))]
    /\ UNCHANGED <<store, tx, req, resp, files, view, batchSize, budget, clock, known, lastUpload>>

HashSpec == HashInit /\ [][ComputeHashes]_vars

\* ------------------------------------------------- the stored-data view
\* the sheets of the session the page shows; a sheet's id is its position
ViewSheets == <<DataSheet, SheetA, SheetB>>

\* what ApiService.getSession answers
SessionData == [loaded |-> TRUE, sheets |-> <<1, 2, 3>>]

\* what ApiService.getSheetDetail(sheetId) answers
SheetDetail(sheetId) ==
    LET sheet == ViewSheets[sheetId]
    IN [id |-> sheetId,
        sheetName |-> sheet.sheetName,
        headers |-> [k \in 1..Len(sheet.headers) |-> Decapitalize(sheet.headers[k])],
        data |-> [j \in 1..Len(sheet.data) |-> ConvertLegacyData(EncodeRow(sheet.data[j]))]]

\* transformedData of loadSheetData
TransformedData(detail) ==
    [sheetName |-> detail.sheetName, headers |-> detail.headers, data |-> detail.data]

PendingSheetRequests ==
    view.sheetRequests[1] + view.sheetRequests[2] + view.sheetRequests[3]

\* loadSheetData up to its await: setLoadingSheet(true), setError(null) and
\* the request sent
LoadSheetData(v, sheetId) ==
    [v EXCEPT !.loadingSheet = TRUE,
              !.error = NullString,
              !.sheetRequests[sheetId] = @ + 1]

\* setCurrentSheet(sheetId) and, when the value changes, the effect on
\* [currentSheet]
SetCurrentSheet(v, sheetId) ==
    IF sheetId = v.currentSheet THEN v
    ELSE LoadSheetData([v EXCEPT !.currentSheet = sheetId], sheetId)

\* the Retry button of the error page: loadSessionData up to its await
LoadSessionData ==
    /\ ~view.loading
    /\ view.error # NullString \/ ~view.session.loaded
    /\ ~view.sessionRequest
    /\ view' = [view EXCEPT !.loading = TRUE, !.error = NullString,
                            !.sessionRequest = TRUE]
    /\ UNCHANGED <<store, tx, req, resp, files, batchSize, budget, clock, known,
                   lastUpload, hashing>>

\* loadSessionData after its await: setSession and the effect on [session]
\* (the first sheet becomes current when none is), or the catch; finally
\* setLoading(false)
LoadSessionDataSettled(ok) ==
    /\ view.sessionRequest
    /\ LET done == [view EXCEPT !.sessionRequest = FALSE, !.loading = FALSE]
       IN view' =
            IF ~ok THEN [done EXCEPT !.error = "Failed to load session data"]
            ELSE LET shown == [done EXCEPT !.session = SessionData]
                 IN IF Len(SessionData.sheets) > 0 /\ shown.currentSheet = 0
                    THEN SetCurrentSheet(shown, SessionData.sheets[1])
                    ELSE shown
    /\ UNCHANGED <<store, tx, req, resp, files, batchSize, budget, clock, known,
                   lastUpload, hashing>>

\* a click on a sheet tab (the tabs are rendered when the page is neither
\* loading nor showing the error page)
HandleSheetSelect(sheetId) ==
    /\ ~view.loading
    /\ view.error = NullString
    /\ view.session.loaded
    /\ \E i \in 1..Len(view.session.sheets) : view.session.sheets[i] = sheetId
    /\ PendingSheetRequests < MaxPending
    /\ view' = SetCurrentSheet(view, sheetId)
    /\ UNCHANGED <<store, tx, req, resp, files, batchSize, budget, clock, known,
                   lastUpload, hashing>>

\* loadSheetData after its await, for any of the requests in flight:
\* setSheetData(transformedData), or the catch; finally setLoadingSheet(false)
LoadSheetDataSettled(sheetId, ok) ==
    /\ view.sheetRequests[sheetId] > 0
    /\ LET done == [view EXCEPT !.sheetRequests[sheetId] = @ - 1,
                                !.loadingSheet = FALSE]
       IN view' =
            IF ok THEN [done EXCEPT !.sheetData = TransformedData(SheetDetail(sheetId))]
            ELSE [done EXCEPT !.error = "Failed to load sheet data"]
    /\ UNCHANGED <<store, tx, req, resp, files, batchSize, budget, clock, known,
                   lastUpload, hashing>>

ViewInit ==
    /\ InitStore
    /\ files = {}
    /\ batchSize = 1
    /\ budget = 0
    /\ hashing = NoHashing
    /\ view = InitialView

ViewNext ==
    \/ LoadSessionData
    \/ \E ok \in BOOLEAN : LoadSessionDataSettled(ok)
    \/ \E sheetId \in 1..Len(ViewSheets) : HandleSheetSelect(sheetId)
    \/ \E sheetId \in 1..Len(ViewSheets), ok \in BOOLEAN :
          LoadSheetDataSettled(sheetId, ok)

ViewSpec == ViewInit /\ [][ViewNext]_vars

\* ===================================================================== claims
\* C1 -- Idempotent upload: an upload that starts after an upload of the same
\* sheet payload has returned a session (still stored) is answered at once
\* with that same session id, whatever its file name, importer or excluded
\* list, and exactly one session with that fingerprint exists afterward.
C1_IdempotentUpload ==
    [][\A u \in 1..Len(Catalog) :
         LET fileHash == CalculateFileHash(Catalog[u])
             starts == /\ budget' = budget - 1
                       /\ \/ \E p \in Procs : /\ req[p].pc = "idle"
                                              /\ req'[p].pc = "begun"
                                              /\ req'[p].u = u
                          \/ /\ resp'.op = "SaveExcelData"
                             /\ resp'.u = u
         IN (/\ starts
             /\ \E s \in sessions : s.id = lastUpload /\ s.fileHash = fileHash)
            => /\ resp'.op = "SaveExcelData"
               /\ resp'.status = "ok"
               /\ resp'.sessionId = lastUpload
               /\ Cardinality({s \in sessions' : s.fileHash = fileHash}) = 1]_vars

\* C2 -- Fingerprint uniqueness under concurrency: in every reachable state
\* at most one committed ImportSession exists per fingerprint.
C2_FingerprintUnique ==
    \A s1, s2 \in sessions : s1.fileHash = s2.fileHash => s1.id = s2.id

\* C3 -- Atomic import: the step at which an import fails after its
\* transaction was opened leaves no record of that attempt in the store,
\* leaves every committed record as it was, and answers with the error that
\* was thrown.
C3_AtomicImport ==
    [][\A p \in Procs :
         (/\ req[p].pc # "idle"
          /\ req'[p].pc = "idle"
          /\ resp'.op = "SaveExcelData"
          /\ resp'.status = "error"
          /\ resp'.by = p)
         => /\ store' = store
            /\ sessions' \cap tx[p].sessions = {}
            /\ sheets' \cap tx[p].sheets = {}
            /\ sheetData' \cap tx[p].sheetData = {}
            /\ excludedSheets' \cap tx[p].excludedSheets = {}
            /\ \A s \in sessions' : s.id # req[p].sid
            /\ \A s \in sheets' \cup excludedSheets' : s.sessionId # req[p].sid
            /\ \A d \in sheetData' : d.sheetId \notin {s.id : s \in tx[p].sheets}
            /\ tx'[p] = EmptyTx
            /\ resp'.error = resp'.thrown]_vars

\* a failure after one sheet of two was written, next to a committed session
C3_Witness ==
    /\ resp.op = "SaveExcelData"
    /\ resp.status = "error"
    /\ resp.sheetsWritten >= 1
    /\ resp.sheetsWritten < Len(Catalog[resp.u].sheets)
    /\ sessions # {}

\* C4 -- Duplicate short-circuit writes nothing: an upload that starts while
\* a session with its fingerprint is stored opens no transaction, changes no
\* record, and is answered successfully with that session's id,
\* processedSheets, totalRows and excludedSheets.
C4_DuplicateShortCircuit ==
    [][\A u \in 1..Len(Catalog) :
         LET fileHash == CalculateFileHash(Catalog[u])
             starts == /\ budget' = budget - 1
                       /\ \/ \E p \in Procs : /\ req[p].pc = "idle"
                                              /\ req'[p].pc = "begun"
                                              /\ req'[p].u = u
                          \/ /\ resp'.op = "SaveExcelData"
                             /\ resp'.u = u
         IN (/\ starts
             /\ \E s \in sessions : s.fileHash = fileHash)
            => /\ store' = store
               /\ tx' = tx
               /\ req' = req
               /\ resp'.op = "SaveExcelData"
               /\ resp'.status = "ok"
               /\ \E s \in sessions :
                    /\ s.fileHash = fileHash
                    /\ resp'.sessionId = s.id
                    /\ resp'.processedSheets = s.processedSheets
                    /\ resp'.totalRows = s.totalRows
                    /\ resp'.excludedSheets = s.excludedSheets]_vars

\* a duplicate answered with a session stored under another file name
C4_Witness ==
    /\ resp.op = "SaveExcelData"
    /\ resp.status = "ok"
    /\ resp.message = "File already exists"
    /\ \E s \in sessions : /\ s.id = resp.sessionId
                           /\ s.fileName # Catalog[resp.u].fileName
                           /\ s.excludedSheets # Len(Catalog[resp.u].metadata.excludedSheets)

C6_FingerprintDeterminism ==
    LET Content(sheetMap) ==
            {[key |-> sheetMap[i].key,
              sheetName |-> sheetMap[i].sheetName,
              headers |-> sheetMap[i].headers,
              data |-> [j \in 1..Len(sheetMap[i].data) |-> Range(sheetMap[i].data[j])]] :
                i \in 1..Len(sheetMap)}
    IN (hashing.computed /\ Content(hashing.a) = Content(hashing.b))
       => hashing.hashA = hashing.hashB

\* C7 -- Cascade delete: DeleteSessionAsync on a stored session id answers
\* true and removes the session with all its Sheet, ExcludedSheet and
\* SheetData records and nothing else; on any other id it answers false and
\* changes nothing; every Sheet and ExcludedSheet references a stored session
\* and every SheetData row a stored Sheet; session detail, sheet detail and
\* search return nothing of a session that is not stored.
C7_CascadeDelete ==
    [][/\ \A sh \in sheets' \cup excludedSheets' :
            \E s \in sessions' : s.id = sh.sessionId
       /\ \A d \in sheetData' : \E sh \in sheets' : sh.id = d.sheetId
       /\ resp'.op = "DeleteSession" =>
            IF \E s \in sessions : s.id = resp'.id
            THEN LET former == {sh.id : sh \in {x \in sheets : x.sessionId = resp'.id}} IN
                 /\ resp'.deleted
                 /\ sessions' = {s \in sessions : s.id # resp'.id}
                 /\ sheets' = {sh \in sheets : sh.sessionId # resp'.id}
                 /\ excludedSheets' = {e \in excludedSheets : e.sessionId # resp'.id}
                 /\ sheetData' = {d \in sheetData : d.sheetId \notin former}
            ELSE /\ ~resp'.deleted
                 /\ store' = store
       /\ (resp'.op = "GetSessionData" /\ resp'.status # "notfound")
            => \E s \in sessions' : s.id = resp'.id
       /\ (resp'.op = "GetSheetDetail" /\ resp'.status # "notfound")
            => \E sh \in sheets' : sh.id = resp'.id
       /\ resp'.op = "SearchData" =>
            \A i \in 1..Len(resp'.data) :
               \E s \in sessions' : s.id = resp'.data[i].sessionId]_vars

\* the detail of a sheet of a deleted session is asked for: not found
C7_Witness ==
    /\ resp.op = "GetSheetDetail"
    /\ resp.status = "notfound"
    /\ resp.id \in known.sheets
    /\ sessions # {}

\* C8 -- Zero-sheet upload (as stated): every successful upload whose sheet
\* set is empty is answered with a session created for that upload:
\* Completed, processedSheets = 0, totalRows = 0, no Sheet or SheetData
\* record, one ExcludedSheet record per excluded name of that upload.
C8_ZeroSheetUploadAsStated ==
    (/\ resp.op = "SaveExcelData"
     /\ resp.status = "ok"
     /\ Catalog[resp.u].sheets = <<>>)
    => LET excluded == Catalog[resp.u].metadata.excludedSheets IN
       \E s \in sessions :
          /\ s.id = resp.sessionId
          /\ s.status = "Completed"
          /\ s.processedSheets = 0
          /\ s.totalRows = 0
          /\ {sh \in sheets : sh.sessionId = s.id} = {}
          /\ \A name \in Range(excluded) \cup
                         {e.sheetName : e \in {x \in excludedSheets : x.sessionId = s.id}} :
                Cardinality({e \in excludedSheets :
                                e.sessionId = s.id /\ e.sheetName = name})
                  = Cardinality({k \in 1..Len(excluded) : excluded[k] = name})

\* C8 -- Zero-sheet upload (amended): a zero-sheet upload that finds no stored
\* session with the fingerprint of the empty payload and commits creates a
\* session for that upload: Completed, processedSheets = 0, totalRows = 0, no
\* Sheet or SheetData record, one ExcludedSheet record per excluded name; one
\* that finds such a session is answered with it as a duplicate.
C8_ZeroSheetUpload ==
    (/\ resp.op = "SaveExcelData"
     /\ resp.status = "ok"
     /\ Catalog[resp.u].sheets = <<>>)
    => LET excluded == Catalog[resp.u].metadata.excludedSheets IN
       \E s \in sessions :
          /\ s.id = resp.sessionId
          /\ s.fileHash = CalculateFileHash(Catalog[resp.u])
          /\ s.status = "Completed"
          /\ s.processedSheets = 0
          /\ s.totalRows = 0
          /\ {sh \in sheets : sh.sessionId = s.id} = {}
          /\ resp.message = "Excel data saved successfully" =>
               /\ s.fileName = Catalog[resp.u].fileName
               /\ \A name \in Range(excluded) \cup
                         {e.sheetName : e \in {x \in excludedSheets : x.sessionId = s.id}} :
                    Cardinality({e \in excludedSheets :
                                    e.sessionId = s.id /\ e.sheetName = name})
                      = Cardinality({k \in 1..Len(excluded) : excluded[k] = name})

\* a zero-sheet upload with two excluded names has committed its session
C8_Witness ==
    /\ resp.op = "SaveExcelData"
    /\ resp.status = "ok"
    /\ resp.message = "Excel data saved successfully"
    /\ Catalog[resp.u].sheets = <<>>
    /\ Len(Catalog[resp.u].metadata.excludedSheets) = 2
    /\ Cardinality({e \in excludedSheets : e.sessionId = resp.sessionId}) = 2

\* C9 -- Content fidelity: sheet detail returns, for every row of the upload
\* the sheet was imported from, at that row index a mapping with exactly the
\* field names of the uploaded row and, for every field, the uploaded scalar
\* (string, number, boolean or null).
C9_RoundTrip ==
    (resp.op = "GetSheetDetail" /\ resp.status = "ok")
    => LET src == CHOOSE r \in known.source : r.sheet = resp.id
           uploaded == Catalog[src.u].sheets[src.index].data
       IN /\ Len(resp.data) = Len(uploaded)
          /\ \A i \in 1..Len(uploaded) :
               /\ {e.name : e \in Range(resp.data[i])} = {e.name : e \in Range(uploaded[i])}
               /\ Len(resp.data[i]) = Len(uploaded[i])
               /\ \A e \in Range(uploaded[i]) :
                    \E r \in Range(resp.data[i]) :
                       r.name = e.name /\ ScalarOf(r.value) = ScalarOf(e.value)

\* C10 -- Pagination metadata: list-sessions and search answer with
\* currentPage = pageNumber, totalRecords = number of matching records,
\* totalPages = ceil(totalRecords / pageSize), hasNextPage = (pageNumber <
\* totalPages) = (pageNumber * pageSize < totalRecords) and hasPreviousPage =
\* (pageNumber > 1).
C10_PaginationMetadata ==
    resp.op \in {"GetSessions", "SearchData"}
    => LET r == resp.request
           matching ==
             IF resp.op = "GetSessions" THEN sessions
             ELSE {d \in sheetData :
                     /\ Contains(RowText(d.rowData), r.searchTerm)
                     /\ r.sessionId # NoId =>
                          \E sh \in sheets : sh.id = d.sheetId /\ sh.sessionId = r.sessionId}
       IN /\ resp.currentPage = r.pageNumber
          /\ resp.pageSize = r.pageSize
          /\ resp.totalRecords = Cardinality(matching)
          /\ resp.totalPages * r.pageSize >= resp.totalRecords
          /\ (resp.totalPages - 1) * r.pageSize < resp.totalRecords
          /\ resp.hasNextPage <=> r.pageNumber < resp.totalPages
          /\ resp.hasNextPage <=> r.pageNumber * r.pageSize < resp.totalRecords
          /\ resp.hasPreviousPage <=> r.pageNumber > 1

\* a search with three matching rows, two per page, first page
C10_Witness ==
    /\ resp.op = "SearchData"
    /\ resp.totalRecords = 3
    /\ resp.pageSize = 2
    /\ resp.currentPage = 1
    /\ resp.hasNextPage
    /\ resp.totalPages = 2

\* C11 -- Session listing is a partition into ordered pages: every answer of
\* GetSessionsAsync lists sessions in imported-at descending order and holds
\* as many records as positions (p-1)*pageSize+1 .. p*pageSize exist; two
\* answers for consecutive pages of one page size over an unchanged store
\* share no session, keep the order across the page break, and pages 1 and 2
\* together hold every stored session when there are two pages.
C11_ListingPartition ==
    [][resp'.op = "GetSessions" =>
         LET page == resp'.data
             ids(r) == {r.data[i].id : i \in 1..Len(r.data)}
             first == (resp'.request.pageNumber - 1) * resp'.request.pageSize
         IN /\ \A i, j \in 1..Len(page) :
                 i < j => /\ page[i].importedAt >= page[j].importedAt
                          /\ page[i].id # page[j].id
            /\ ids(resp') \subseteq {s.id : s \in sessions'}
            /\ Len(page) = IF Cardinality(sessions') <= first THEN 0
                           ELSE Min(resp'.request.pageSize, Cardinality(sessions') - first)
            /\ (/\ resp.op = "GetSessions"
                /\ resp.request.pageSize = resp'.request.pageSize
                /\ resp'.request.pageNumber = resp.request.pageNumber + 1)
               => /\ ids(resp) \cap ids(resp') = {}
                  /\ \A i \in 1..Len(resp.data), j \in 1..Len(page) :
                        resp.data[i].importedAt >= page[j].importedAt
                  /\ (resp.request.pageNumber = 1 /\ resp'.totalPages <= 2)
                       => ids(resp) \cup ids(resp') = {s.id : s \in sessions'}]_vars

\* C12 -- Search membership: every answer of SearchDataAsync succeeds, counts
\* exactly the stored rows whose payload text contains the search term (of
\* the given session when one is given; none for an id that matches no
\* session), and each result carries the decoded row, its row index, the
\* owning sheet's name and the owning session's file name, imported-at and
\* id; the answers for pages 1 and 2 of one request over an unchanged store
\* together return every matching row exactly once when there are at most two
\* pages.
C12_SearchMembership ==
    [][resp'.op = "SearchData" =>
         LET r == resp'.request
             SheetOf(d) == CHOOSE sh \in sheets' : sh.id = d.sheetId
             SessionOf(d) == CHOOSE ss \in sessions' : ss.id = SheetOf(d).sessionId
             matching == {d \in sheetData' :
                            /\ Contains(RowText(d.rowData), r.searchTerm)
                            /\ r.sessionId # NoId => SheetOf(d).sessionId = r.sessionId}
             Describes(res, d) ==
                /\ res.rowIndex = d.rowIndex
                /\ res.rowData = ConvertLegacyData(d.rowData)
                /\ res.sheetName = SheetOf(d).sheetName
                /\ res.sessionId = SessionOf(d).id
                /\ res.fileName = SessionOf(d).fileName
                /\ res.importedAt = SessionOf(d).importedAt
         IN /\ resp'.status = "ok"
            /\ resp'.totalRecords = Cardinality(matching)
            /\ \A i \in 1..Len(resp'.data) : \E d \in matching : Describes(resp'.data[i], d)
            /\ \A i, j \in 1..Len(resp'.data) : i # j => resp'.data[i] # resp'.data[j]
            /\ (r.sessionId # NoId /\ ~\E ss \in sessions' : ss.id = r.sessionId)
                 => resp'.data = <<>> /\ resp'.totalRecords = 0
            /\ (/\ resp.op = "SearchData"
                /\ resp.request = [r EXCEPT !.pageNumber = 1]
                /\ r.pageNumber = 2
                /\ resp'.totalPages <= 2)
               => /\ \A d \in matching :
                       \E res \in Range(resp.data) \cup Range(resp'.data) : Describes(res, d)
                  /\ Range(resp.data) \cap Range(resp'.data) = {}]_vars

\* C13 -- Search ordering: every answer of SearchDataAsync lists its results
\* by the owning session's imported-at descending, then sheet position index
\* ascending, then row index ascending, and is the slice at positions
\* (p-1)*pageSize+1 .. p*pageSize of the matching rows in that order: the
\* result at a position has the sort key that position has in the sorted
\* matching rows, whatever the order the records were inserted in.
C13_SearchOrdering ==
    resp.op = "SearchData" =>
       LET r == resp.request
           SheetOf(d) == CHOOSE sh \in sheets : sh.id = d.sheetId
           SessionOf(d) == CHOOSE ss \in sessions : ss.id = SheetOf(d).sessionId
           matching == {d \in sheetData :
                          /\ Contains(RowText(d.rowData), r.searchTerm)
                          /\ r.sessionId # NoId => SheetOf(d).sessionId = r.sessionId}
           KeyOf(d) == <<0 - SessionOf(d).importedAt, SheetOf(d).sheetIndex, d.rowIndex>>
           ResultKey(res) ==
              <<0 - res.importedAt,
                (CHOOSE sh \in sheets : sh.sessionId = res.sessionId
                                        /\ sh.sheetName = res.sheetName).sheetIndex,
                res.rowIndex>>
           Before(a, b) == \/ a[1] < b[1]
                           \/ a[1] = b[1] /\ a[2] < b[2]
                           \/ a[1] = b[1] /\ a[2] = b[2] /\ a[3] < b[3]
           first == (r.pageNumber - 1) * r.pageSize
       IN /\ \A i, j \in 1..Len(resp.data) :
               i < j => ~Before(ResultKey(resp.data[j]), ResultKey(resp.data[i]))
          /\ Len(resp.data) = IF Cardinality(matching) <= first THEN 0
                              ELSE Min(r.pageSize, Cardinality(matching) - first)
          /\ \A i \in 1..Len(resp.data) :
               LET k == ResultKey(resp.data[i]) IN
               /\ Cardinality({d \in matching : Before(KeyOf(d), k)}) < first + i
               /\ first + i <= Cardinality({d \in matching : ~Before(k, KeyOf(d))})

\* second page of a search: a row of the session imported later precedes a
\* row of the session imported (and inserted) earlier
C13_Witness ==
    /\ resp.op = "SearchData"
    /\ resp.currentPage = 2
    /\ Len(resp.data) = 2
    /\ resp.data[1].importedAt > resp.data[2].importedAt
    /\ resp.data[1].sessionId[1] > resp.data[2].sessionId[1]

\* C14 -- Session detail: GetSessionDataAsync answers not-found exactly when
\* no session with the given id is stored; for every stored session it
\* answers (without faulting, whatever header strings were stored) with the
\* session's fields, its sheets in ascending position index, each with its
\* headers decapitalized, and one excluded-sheet entry per stored
\* ExcludedSheet record of the session.
C14_SessionDetail ==
    resp.op = "GetSessionData" =>
       LET found == {ss \in sessions : ss.id = resp.id} IN
       /\ resp.status = "notfound" <=> found = {}
       /\ found # {} =>
            LET session == CHOOSE ss \in found : TRUE
                own == {sh \in sheets : sh.sessionId = session.id}
                excl == {e \in excludedSheets : e.sessionId = session.id}
            IN /\ resp.status = "ok"
               /\ resp.fileName = session.fileName
               /\ resp.importedAt = session.importedAt
               /\ resp.totalSheets = session.totalSheets
               /\ resp.processedSheets = session.processedSheets
               /\ resp.excludedSheets = session.excludedSheets
               /\ resp.totalRows = session.totalRows
               /\ resp.sessionStatus = session.status
               /\ Len(resp.sheets) = Cardinality(own)
               /\ \A i, j \in 1..Len(resp.sheets) :
                     i < j => resp.sheets[i].sheetIndex < resp.sheets[j].sheetIndex
               /\ \A i \in 1..Len(resp.sheets) :
                     \E sh \in own :
                        /\ resp.sheets[i].id = sh.id
                        /\ resp.sheets[i].sheetName = sh.sheetName
                        /\ resp.sheets[i].sheetIndex = sh.sheetIndex
                        /\ resp.sheets[i].rowCount = sh.rowCount
                        /\ resp.sheets[i].columnCount = sh.columnCount
                        /\ Len(resp.sheets[i].headers) = Len(sh.headers.items)
                        /\ \A k \in 1..Len(sh.headers.items) :
                              LET h == sh.headers.items[k]
                                  out == resp.sheets[i].headers[k]
                              IN /\ Len(out) = Len(h)
                                 /\ \A c \in 2..Len(h) : out[c] = h[c]
                                 /\ h # <<>> => out[1] = ToLower(h[1])
               /\ Len(resp.excludedSheetsList) = Cardinality(excl)
               /\ \A e \in excl :
                     Cardinality({k \in 1..Len(resp.excludedSheetsList) :
                                     resp.excludedSheetsList[k].sheetName = e.sheetName})
                       = Cardinality({x \in excl : x.sheetName = e.sheetName})

\* C15 -- Sheet detail: GetSheetDetailAsync answers not-found exactly when no
\* sheet with the given id is stored; for every stored sheet it answers with
\* the sheet's name and position index and exactly one decoded row per stored
\* SheetData row of the sheet, in ascending row-index order.
C15_SheetDetail ==
    resp.op = "GetSheetDetail" =>
       LET found == {sh \in sheets : sh.id = resp.id} IN
       /\ resp.status = "notfound" <=> found = {}
       /\ found # {} =>
            LET sheet == CHOOSE sh \in found : TRUE
                rows == {d \in sheetData : d.sheetId = sheet.id}
            IN /\ resp.status = "ok"
               /\ resp.sheetName = sheet.sheetName
               /\ resp.sheetIndex = sheet.sheetIndex
               /\ Len(resp.data) = Cardinality(rows)
               /\ \A d \in rows :
                     LET position == 1 + Cardinality({x \in rows : x.rowIndex < d.rowIndex})
                     IN resp.data[position] = ConvertLegacyData(d.rowData)

C17_DecodeLocal ==
    LET Decodable(d) ==
            /\ d.rowData.wellFormed
            /\ \A m \in Range(d.rowData.members) : ~ConvertLegacyValueThrows(m.value)
        Normal(d, row) ==
            IF Decodable(d)
            THEN /\ Len(row) = Len(d.rowData.members)
                 /\ \A i \in 1..Len(row) :
                       /\ row[i].name = d.rowData.members[i].name
                       /\ row[i].value.t \in {"string", "long", "double", "bool", "null"}
            ELSE row = <<>>
        SheetOf(d) == CHOOSE sh \in sheets : sh.id = d.sheetId
    IN /\ resp.op = "GetSheetDetail" /\ (\E sh \in sheets : sh.id = resp.id) =>
            LET rows == {d \in sheetData : d.sheetId = resp.id}
            IN /\ resp.status = "ok"
               /\ Len(resp.data) = Cardinality(rows)
               /\ \A d \in rows :
                     Normal(d, resp.data[1 + Cardinality({x \in rows : x.rowIndex < d.rowIndex})])
       /\ resp.op = "SearchData" =>
            LET matching == {d \in sheetData :
                               /\ Contains(RowText(d.rowData), resp.request.searchTerm)
                               /\ resp.request.sessionId # NoId =>
                                     SheetOf(d).sessionId = resp.request.sessionId}
            IN /\ resp.status = "ok"
               /\ resp.totalRecords = Cardinality(matching)
               /\ \A i \in 1..Len(resp.data) :
                     \E d \in matching :
                        /\ d.rowIndex = resp.data[i].rowIndex
                        /\ SheetOf(d).sheetName = resp.data[i].sheetName
                        /\ SheetOf(d).sessionId = resp.data[i].sessionId
                        /\ Normal(d, resp.data[i].rowData)

\* a search whose page holds the corrupt record as an empty row next to a
\* decoded row
C17_Witness ==
    /\ resp.op = "SearchData"
    /\ resp.status = "ok"
    /\ Len(resp.data) = 2
    /\ resp.data[1].rowData = <<>>
    /\ resp.data[2].rowData # <<>>
    /\ \E d \in sheetData : d.rowIndex = 0 /\ ~d.rowData.wellFormed
    /\ \E d \in sheetData : d.rowIndex = 1 /\ d.rowData.wellFormed

\* C18 -- Header transform on read only: session detail and sheet detail
\* return each header string of a stored sheet with its first character
\* lower-cased and every other character unchanged, keeping the list's length
\* and order; the header list persisted by the import is exactly the list
\* given in the upload, and the two reads leave it as it is.
C18_HeaderTransform ==
    [][LET Uploaded(sh) ==
               LET src == CHOOSE r \in known'.source : r.sheet = sh.id
               IN Catalog[src.u].sheets[src.index].headers
           Transformed(stored, out) ==
               /\ Len(out) = Len(stored)
               /\ \A k \in 1..Len(stored) :
                     /\ Len(out[k]) = Len(stored[k])
                     /\ stored[k] # <<>> => out[k][1] = ToLower(stored[k][1])
                     /\ \A c \in 2..Len(stored[k]) : out[k][c] = stored[k][c]
       IN /\ \A sh \in sheets' :
                /\ sh.headers.wellFormed
                /\ sh.headers.items = Uploaded(sh)
          /\ resp'.op \in {"GetSessionData", "GetSheetDetail"} => sheets' = sheets
          /\ (resp'.op = "GetSessionData" /\ \E ss \in sessions : ss.id = resp'.id) =>
                /\ resp'.status = "ok"
                /\ \A sh \in SheetsOf(resp'.id) :
                      \E i \in 1..Len(resp'.sheets) :
                         /\ resp'.sheets[i].id = sh.id
                         /\ Transformed(sh.headers.items, resp'.sheets[i].headers)
          /\ (resp'.op = "GetSheetDetail" /\ \E sh \in sheets : sh.id = resp'.id) =>
                /\ resp'.status = "ok"
                /\ \A sh \in sheets :
                      sh.id = resp'.id => Transformed(sh.headers.items, resp'.headers)
      ]_vars

\* C19 -- Validation precedes persistence: an upload request whose payload
\* misses fileName, metadata or sheets, or holds a sheet that misses
\* sheetName, headers or data, is answered with a client error that lists an
\* error for every such field; SaveExcelDataAsync is never invoked for it and
\* the store is unchanged.
C19_ValidationPrecedes ==
    [][LET Lacks(field) == field.present # "value"
           SheetsOfRaw(raw) == IF raw.sheets.present = "value" THEN raw.sheets.value ELSE <<>>
           Lacking(raw) ==
               (IF Lacks(raw.fileName) THEN 1 ELSE 0)
                 + (IF Lacks(raw.metadata) THEN 1 ELSE 0)
                 + (IF Lacks(raw.sheets) THEN 1 ELSE 0)
                 + SumSeq([i \in 1..Len(SheetsOfRaw(raw)) |->
                             (IF Lacks(SheetsOfRaw(raw)[i].sheetName) THEN 1 ELSE 0)
                               + (IF Lacks(SheetsOfRaw(raw)[i].headers) THEN 1 ELSE 0)
                               + (IF Lacks(SheetsOfRaw(raw)[i].data) THEN 1 ELSE 0)])
           SentAs(u) == {r \in 1..Len(Requests) :
                            ModelStateErrors(Requests[r]) = <<>> /\ Bind(Requests[r]) = Catalog[u]}
       IN /\ \A p \in Procs :
                (req[p].pc = "idle" /\ req'[p].pc # "idle") =>
                   \A r \in SentAs(req'[p].u) : Lacking(Requests[r]) = 0
          /\ (resp'.op = "SaveExcelData" /\ resp' # resp) =>
                \A r \in SentAs(resp'.u) : Lacking(Requests[r]) = 0
          /\ resp'.op = "UploadExcelData" =>
                /\ resp'.status = "badrequest"
                /\ Len(resp'.errors) >= Lacking(Requests[resp'.r])
                /\ Len(resp'.errors) >= 1
                /\ store' = store
                /\ tx' = tx
                /\ req' = req
      ]_vars

\* C20 -- Session status lifecycle: the session an import has inserted is in
\* status Processing until its last write before commit, which sets it to
\* Completed with the measured duration after every sheet and every row
\* batch of the upload has been written; a finished import (committed or
\* failed) leaves no session in status Processing, and no session ever has a
\* status other than Processing and Completed.
C20_StatusLifecycle ==
    /\ \A s \in sessions : s.status = "Completed" /\ s.processingTimeMs >= 0
    /\ \A p \in Procs :
          /\ req[p].pc \in {"idle", "begun"} => tx[p] = EmptyTx
          /\ req[p].pc \in {"sheets", "rows", "commit"} => Cardinality(tx[p].sessions) = 1
          /\ \A s \in tx[p].sessions :
                LET uploadData == Catalog[req[p].u]
                IN /\ s.status \in {"Processing", "Completed"}
                   /\ req[p].pc \in {"sheets", "rows"} =>
                         s.status = "Processing" /\ s.processingTimeMs = -1
                   /\ req[p].pc = "commit" => s.status = "Completed"
                   /\ s.status = "Completed" =>
                         /\ s.processingTimeMs >= 0
                         /\ Cardinality(tx[p].sheets) = Len(uploadData.sheets)
                         /\ Cardinality(tx[p].sheetData) =
                              SumSeq([i \in 1..Len(uploadData.sheets) |->
                                         Len(uploadData.sheets[i].data)])

\* an import that has written two sheets and their rows and has just set its
\* session to Completed, next to a committed session
C20_Witness ==
    /\ sessions # {}
    /\ \E p \in Procs :
          /\ req[p].pc = "commit"
          /\ Cardinality(tx[p].sheets) = 2
          /\ tx[p].sheetData # {}
          /\ \A s \in tx[p].sessions : s.status = "Completed"

C22_RowIndexing ==
    LET Ceil(n, b) == (n + b - 1) \div b
        Prefix(rows, data, m) ==
            /\ Cardinality(rows) = m
            /\ \A k \in 0..(m - 1) :
                  \E d \in rows : d.rowIndex = k /\ d.rowData = EncodeRow(data[k + 1])
    IN /\ \A sh \in sheets :
             \A src \in known.source :
                src.sheet = sh.id =>
                   LET data == Catalog[src.u].sheets[src.index].data
                   IN Prefix(RowsOf(sh.id), data, Len(data))
       /\ \A p \in Procs :
             req[p].pc \in {"sheets", "rows", "commit"} =>
                LET uploadData == Catalog[req[p].u]
                    written(sh) == {d \in tx[p].sheetData : d.sheetId = sh.id}
                    current == req[p].pc = "rows"
                    done == req[p].sheetIndex
                IN /\ Cardinality(tx[p].sheets) = done + (IF current THEN 1 ELSE 0)
                   /\ \A sh \in tx[p].sheets :
                         LET data == uploadData.sheets[sh.sheetIndex + 1].data
                         IN IF sh.sheetIndex < done
                            THEN Prefix(written(sh), data, Len(data))
                            ELSE /\ req[p].i % batchSize = 0
                                 /\ req[p].i < Len(data)
                                 /\ Prefix(written(sh), data, req[p].i)
                   /\ req[p].steps =
                         1 + SumSeq([j \in 1..done |->
                                        1 + Ceil(Len(uploadData.sheets[j].data), batchSize)])
                           + (IF current THEN 1 + req[p].i \div batchSize ELSE 0)
                           + (IF req[p].pc = "commit" THEN 1 ELSE 0)

\* a committed sheet of three rows written in two batches (two rows, one row)
C22_Witness ==
    /\ batchSize = 2
    /\ resp.op = "SaveExcelData"
    /\ resp.status = "ok"
    /\ \E sh \in sheets :
          /\ sh.sessionId = resp.sessionId
          /\ {d.rowIndex : d \in RowsOf(sh.id)} = {0, 1, 2}

\* C23 -- Sheet position index: within one import the sheets are written in
\* the order of the upload's sheet map, the k-th sheet written getting
\* position index k-1; the position indexes of a session's sheets are exactly
\* 0..n-1, each once, and a Sheet record is inserted before any of its rows.
C23_SheetPositionIndex ==
    /\ \A s \in sessions :
          LET own == SheetsOf(s.id) IN
          /\ {sh.sheetIndex : sh \in own} = 0..(s.processedSheets - 1)
          /\ \A a, b \in own : a.sheetIndex = b.sheetIndex => a = b
          /\ \A sh \in own : \A src \in known.source :
                src.sheet = sh.id =>
                   /\ src.index = sh.sheetIndex + 1
                   /\ sh.sheetName = Catalog[src.u].sheets[src.index].sheetName
    /\ \A d \in sheetData : \E sh \in sheets : sh.id = d.sheetId
    /\ \A p \in Procs :
          req[p].pc \in {"sheets", "rows", "commit"} =>
             LET uploadData == Catalog[req[p].u]
                 count == req[p].sheetIndex + (IF req[p].pc = "rows" THEN 1 ELSE 0)
             IN /\ {sh.sheetIndex : sh \in tx[p].sheets} = 0..(count - 1)
                /\ Cardinality(tx[p].sheets) = count
                /\ \A sh \in tx[p].sheets :
                      /\ sh.sessionId = req[p].sid
                      /\ sh.sheetName = uploadData.sheets[sh.sheetIndex + 1].sheetName
                /\ \A d \in tx[p].sheetData : \E sh \in tx[p].sheets : sh.id = d.sheetId
                /\ req[p].pc = "commit" => count = Len(uploadData.sheets)

\* a committed import of the sheet map (B, A): B at position 0, A at position 1
C23_Witness ==
    /\ resp.op = "SaveExcelData"
    /\ resp.status = "ok"
    /\ \E x, y \in SheetsOf(resp.sessionId) :
          /\ x.sheetName = "B" /\ x.sheetIndex = 0
          /\ y.sheetName = "A" /\ y.sheetIndex = 1
          /\ RowsOf(y.id) # {}

\* C24 -- Canonical decode: for a stored row that is a JSON object of field
\* to scalar, ConvertLegacyData returns a mapping with the same field names
\* in which each string, number and boolean value is the stored one and a
\* null value is null (not "N/A").
C24_CanonicalDecode ==
    (resp.op = "GetSheetDetail" /\ resp.status = "ok") =>
       \A d \in RowsOf(resp.id) :
          (/\ d.rowData.wellFormed
           /\ \A m \in Range(d.rowData.members) :
                 m.value.t \in {"string", "int", "float", "bool", "null"})
          => LET row == resp.data[d.rowIndex + 1]
             IN /\ Len(row) = Len(d.rowData.members)
                /\ \A i \in 1..Len(row) :
                      LET m == d.rowData.members[i]
                      IN /\ row[i].name = m.name
                         /\ row[i].value =
                              CASE m.value.t = "string" -> ClrString(m.value.v)
                                [] m.value.t = "int" -> ClrLong(m.value.v)
                                [] m.value.t = "float" -> ClrDouble(m.value.v)
                                [] m.value.t = "bool" -> ClrBool(m.value.v)
                                [] OTHER -> ClrNull

\* C25 -- Import termination: once started, SaveExcelDataAsync finishes,
\* committing or rolling back, for every upload and every integer value of
\* the batch-size setting, 0 and negative values included.
C25_ImportTermination ==
    \A p \in Procs : (req[p].pc # "idle") ~> (req[p].pc = "idle")

\* C26 -- No false duplicates: the text hashed by CalculateFileHash
\* distinguishes every pair of sheet payloads that the stored encoding
\* distinguishes (a different sheet name, header, or cell value in any row),
\* so an upload of different content never gets the fingerprint of a stored
\* session.
C26_NoFalseDuplicates ==
    LET Stored(sheetMap) ==
            [i \in 1..Len(sheetMap) |->
                [sheetName |-> sheetMap[i].sheetName,
                 headers |-> SerializeHeaders(sheetMap[i].headers),
                 rows |-> [j \in 1..Len(sheetMap[i].data) |-> EncodeRow(sheetMap[i].data[j])]]]
    IN (hashing.computed /\ Stored(hashing.a) # Stored(hashing.b))
       => hashing.hashA # hashing.hashB

C28_SearchRejectsPaging ==
    (/\ resp.op = "SearchData"
     /\ (resp.request.pageNumber < 1 \/ resp.request.pageSize < 1))
        => resp.status = "badrequest"

\* C29: in every result of GetSheetDetailAsync for a sheet whose uploaded rows
\* use the sheet's headers as field names, each returned header is a field
\* name of every returned non-empty row (row[header] finds a field).
C29_HeadersAreRowFields ==
    LET RECURSIVE Text(_)
        Text(h) == IF h = <<>> THEN "" ELSE Head(h) \o Text(Tail(h))
        FieldNames(row) == {row[m].name : m \in 1..Len(row)}
        UsesHeaders(sheetDto) ==
            \A j \in 1..Len(sheetDto.data) :
               FieldNames(sheetDto.data[j]) =
                  {Text(sheetDto.headers[k]) : k \in 1..Len(sheetDto.headers)}
    IN (resp.op = "GetSheetDetail" /\ resp.status = "ok") =>
          \A src \in known.source :
             (src.sheet = resp.id /\ UsesHeaders(Catalog[src.u].sheets[src.index])) =>
                \A i \in 1..Len(resp.data), k \in 1..Len(resp.headers) :
                   resp.data[i] # <<>> => Text(resp.headers[k]) \in FieldNames(resp.data[i])

\* C30: whatever the tab selections and the order of the sheet-detail
\* responses, a response that leaves no sheet request pending and the page
\* showing its tabs leaves in sheetData the data of the currently selected
\* sheet (a late response for a sheet selected before never replaces it).
C30_ViewShowsSelected ==
    [][(/\ view'.sheetData # view.sheetData
        /\ view'.session.loaded
        /\ ~view'.loading
        /\ view'.error = NullString
        /\ PendingSheetRequests' = 0)
          => view'.sheetData = TransformedData(SheetDetail(view'.currentSheet))]_vars

====
